---- MODULE Spec2Model ----
(***************************************************************************)
(* PesajesBot (src/main.py): a Telegram bot (aiogram 3) that walks a user  *)
(* through data-entry flows.  The model keeps, per user, the FSM state and *)
(* the collected fields of aiogram's MemoryStorage, the bot's              *)
(* user_last_activity table and a clock; every handler of the bot is an    *)
(* action.  What a handler sends out (replies, database rows, messages to  *)
(* the group) is recorded, in order, in `out` for the event just handled.  *)
(*                                                                         *)
(* A text is a sequence of one-character strings, so that the validators   *)
(* (isdigit, length, regular expressions, substring tests) are computed as *)
(* the code computes them.                                                 *)
(***************************************************************************)
EXTENDS Integers, Sequences, FiniteSets, TLC

\* ------------------------------------------------------------------ bounds
\* Minutes that pass in one Tick, and the longest idle time told apart.
TickMinutes == 20
MaxTime == 40
\* Items a flow may accumulate in one session (bands, silos, weighings).
MaxItems == 2

\* ------------------------------------------------------- program constants
TIMEOUT_MINUTES == 20

\* -------------------------------------------------------------- characters
Digits == {"0", "1", "2", "3", "4", "5", "6", "7", "8", "9"}
Mayusculas == <<"A","B","C","D","E","F","G","H","I","J","K","L","M","N","O",
                "P","Q","R","S","T","U","V","W","X","Y","Z","Í">>
Minusculas == <<"a","b","c","d","e","f","g","h","i","j","k","l","m","n","o",
                "p","q","r","s","t","u","v","w","x","y","z","í">>

IndexOf(c, s) == IF \E i \in 1..Len(s) : s[i] = c
                 THEN CHOOSE i \in 1..Len(s) : s[i] = c ELSE 0
IsUpperChar(c) == IndexOf(c, Mayusculas) # 0
IsLowerChar(c) == IndexOf(c, Minusculas) # 0
LowerChar(c) == IF IsUpperChar(c) THEN Minusculas[IndexOf(c, Mayusculas)] ELSE c
UpperChar(c) == IF IsLowerChar(c) THEN Mayusculas[IndexOf(c, Minusculas)] ELSE c
IsAsciiLetter(c) == (IsUpperChar(c) \/ IsLowerChar(c)) /\ c \notin {"Í", "í"}

\* The whitespace of the texts of the model: the blank and the line feed.
Blancos == {" ", "\n"}
\* str.lower(), str.upper(), str.title() (one word), str.strip()
lower(t) == [i \in 1..Len(t) |-> LowerChar(t[i])]
upper(t) == [i \in 1..Len(t) |-> UpperChar(t[i])]
title(t) == [i \in 1..Len(t) |-> IF i = 1 THEN UpperChar(t[i]) ELSE LowerChar(t[i])]
RECURSIVE strip(_)
strip(t) == IF t = <<>> THEN t
            ELSE IF Head(t) \in Blancos THEN strip(Tail(t))
            ELSE IF t[Len(t)] \in Blancos THEN strip(SubSeq(t, 1, Len(t) - 1))
            ELSE t

\* `w in t` for strings: w occurs in t as a contiguous piece.
Contains(t, w) == \E i \in 1..(Len(t) - Len(w) + 1) : SubSeq(t, i, i + Len(w) - 1) = w

\* str.isdigit(): not empty and every character a digit.
isdigit(t) == Len(t) > 0 /\ \A i \in 1..Len(t) : t[i] \in Digits

DigitVal(c) == CHOOSE n \in 0..9 : <<"0","1","2","3","4","5","6","7","8","9">>[n + 1] = c
RECURSIVE DigitsToInt(_)
DigitsToInt(t) == IF t = <<>> THEN 0
                  ELSE 10 * DigitsToInt(SubSeq(t, 1, Len(t) - 1)) + DigitVal(t[Len(t)])

\* int(valor): an optional sign and digits (surrounding blanks are allowed);
\* anything else raises ValueError.
IsInt(t) == LET s == strip(t) IN
            \/ isdigit(s)
            \/ Len(s) > 1 /\ s[1] \in {"-", "+"} /\ isdigit(Tail(s))
int(t) == LET s == strip(t) IN
          IF s[1] = "-" THEN 0 - DigitsToInt(Tail(s))
          ELSE IF s[1] = "+" THEN DigitsToInt(Tail(s))
          ELSE DigitsToInt(s)

\* float(valor) on the texts of the model: whole numbers only (the inputs
\* carry no decimal part); anything else raises ValueError.
IsFloat(t) == IsInt(t)
float(t) == int(t)

\* ---------------------------------------------------------------- validators
validar_cedula(valor) == isdigit(valor)

validar_placa_conductor(valor) ==
    LET v == upper(valor) IN
    /\ Len(v) = 6
    /\ \A i \in 1..3 : IsUpperChar(v[i]) /\ v[i] # "Í"
    /\ \A i \in 4..6 : v[i] \in Digits

validar_placa(valor) == validar_placa_conductor(valor)

\* (es_valido, numero): numero is 0 when the value is rejected.
validar_numero_entero(valor, minimo, maximo) ==
    IF ~IsInt(valor) THEN <<FALSE, 0>>
    ELSE IF int(valor) < minimo THEN <<FALSE, 0>>
    ELSE IF int(valor) > maximo THEN <<FALSE, 0>>
    ELSE <<TRUE, int(valor)>>

validar_galones(valor) ==
    IF ~IsFloat(valor) THEN <<FALSE, 0>>
    ELSE IF float(valor) <= 0 THEN <<FALSE, 0>>
    ELSE IF float(valor) > 100000 THEN <<FALSE, 0>>
    ELSE <<TRUE, float(valor)>>

validar_cedula_sitio3(valor) ==
    IF ~isdigit(valor) THEN FALSE
    ELSE IF Len(valor) < 6 \/ Len(valor) > 12 THEN FALSE
    ELSE TRUE

\* (es_valido, banda)
validar_numero_banda(valor) ==
    LET v == strip(valor) IN
    IF v = <<>> THEN <<FALSE, <<>> >>
    ELSE IF Len(v) > 50 THEN <<FALSE, <<>> >>
    ELSE <<TRUE, v>>

\* What `$` of a pattern given to re.match lets follow the match: nothing, or
\* one line feed that ends the text.
SinSaltoFinal(valor) ==
    IF valor # <<>> /\ valor[Len(valor)] = "\n"
    THEN SubSeq(valor, 1, Len(valor) - 1) ELSE valor

\* re.match(r'^\d+-\d+$', valor): the position of the one "-" of a text of
\* the shape digits-digits, else 0.
GuionDeRango(valor) ==
    LET v == SinSaltoFinal(valor) IN
    IF \E i \in 2..(Len(v) - 1) :
          /\ v[i] = "-"
          /\ isdigit(SubSeq(v, 1, i - 1))
          /\ isdigit(SubSeq(v, i + 1, Len(v)))
    THEN CHOOSE i \in 2..(Len(v) - 1) :
          /\ v[i] = "-"
          /\ isdigit(SubSeq(v, 1, i - 1))
          /\ isdigit(SubSeq(v, i + 1, Len(v)))
    ELSE 0

\* max_rango = 0 stands for max_rango=None (no limit on the span).
validar_rango_corrales(valor, max_rango) ==
    LET g == GuionDeRango(valor)
        inicio == int(SubSeq(valor, 1, g - 1))
        fin == int(SubSeq(valor, g + 1, Len(valor)))
    IN  IF g = 0 THEN FALSE
        ELSE IF inicio < 1 THEN FALSE
        ELSE IF fin < 1 THEN FALSE
        ELSE IF inicio > fin THEN FALSE
        ELSE IF max_rango # 0 /\ fin - inicio + 1 > max_rango THEN FALSE
        ELSE TRUE

validar_cantidad_lechones(valor) ==
    IF ~IsInt(valor) THEN <<FALSE, 0>>
    ELSE IF int(valor) < 1 THEN <<FALSE, 0>>
    ELSE IF int(valor) > 5000 THEN <<FALSE, 0>>
    ELSE <<TRUE, int(valor)>>

validar_numero_lote(valor) ==
    /\ Len(valor) >= 3
    /\ Len(valor) <= 30
    /\ \A i \in 1..Len(valor) :
          IsAsciiLetter(valor[i]) \/ valor[i] \in Digits \/ valor[i] \in {"_", "-"}

\* ------------------------------------------------------------------ texts
\* What the users of the model type.  A literal of the program that is only
\* stored or compared whole (a table name, 'INACTIVO', a menu label) is kept
\* as a text of one piece.
T0 == <<"0">>
T1 == <<"1">>
T2 == <<"2">>
T3 == <<"3">>
T4 == <<"4">>
T5 == <<"5">>
T6 == <<"6">>
TCedula == <<"1","2","3","4","5","6">>
TPlaca == <<"a","b","c","1","2","3">>
TRango == <<"1","-","5">>
TOk == <<"o","k">>
TSi == <<"S","í">>
TNo == <<"N","o">>
TDiesel == <<"d","i","e","s","e","l">>
TLevante == <<"L","e","v","a","n","t","e">>
TStart == <<"/","s","t","a","r","t">>
TConfirmar == <<"c","o","n","f","i","r","m","a","r">>

Textos == {T0, T1, T2, T3, T4, T5, T6, TOk, TSi, TNo, TDiesel, TLevante, TStart,
           TConfirmar}

\* A message carries a text, or a photo (and then message.text is None).
Foto == [kind |-> "photo", text |-> <<>>]
Mensajes == [kind : {"text"}, text : Textos] \cup {Foto}
\* What is sent where a value is asked for (an identity number, a plate, a
\* quantity, a range, free text): some of it valid there and some not.
Valores == [kind : {"text"}, text : {T1, TCedula, TPlaca, TRango}] \cup {Foto}
\* What is sent for a count that is compared with another (the weighings of
\* Sitio 1 and the weight of each, the live pigs of a load): the values, and a
\* second valid number.
Cantidades == Valores \cup {[kind |-> "text", text |-> T2]}
\* What is sent where any text is taken (an invoice number, a band, a pen).
TBlanco == <<" ">>
Libres == [kind : {"text"}, text : {T1, TPlaca, TBlanco}] \cup {Foto}

EsTexto(m, t) == m.kind = "text" /\ m.text = t
EsFoto(m) == m.kind = "photo"

INACTIVO == <<"INACTIVO">>
None == <<"None">>
\* The global db_pool when it refers to no pool (the pools are numbered from 1).
SinPool == 0

\* ----------------------------------------------------------------- states
\* An FSM state "Group:flow_step" is kept as its pieces, so that the tests
\* the code makes on the name ("medicion" in state_name) can be computed.
NoState == <<>>
RegistroState(flujo, paso) == <<"RegistroState", flujo, paso>>
ConductoresState(paso) == <<"ConductoresState", paso>>
OperarioSitio1State(paso) == <<"OperarioSitio1State", paso>>
menu_principal == <<"RegistroState", "menu_principal">>
sitio3_menu == <<"RegistroState", "sitio3", "menu">>

EnNombre(w, state_name) == \E i \in 1..Len(state_name) : state_name[i] = w

\* ------------------------------------------------------------------ state
Users == {"u1"}

VARIABLES
    event,               \* the message of the update the dispatcher took last
    storage,             \* MemoryStorage: per user, the FSM state and the fields
    user_last_activity,  \* the users with a last event, and how long ago it was
    out,                 \* who sent the last event, and what handling it emitted
    tareas,              \* the handlers suspended at an await, oldest first
    db_pool,             \* the global db_pool: None, or the pool it refers to
    pools                \* the pools created so far, each open or closed

vars == <<event, storage, user_last_activity, out, tareas, db_pool, pools>>

NoData == <<>>
Get(d, k, default) == IF k \in DOMAIN d THEN d[k] ELSE default
\* state.update_data(k=v)
Upd(d, k, v) == (k :> v) @@ d

Answer(kind) == <<"answer", kind>>
Db(res, row) == <<"db", res, row>>
Grupo(res) == <<"grupo", res>>
\* A notification that attaches photos: the text with the summary is sent
\* first; when that succeeds the photos kept in local files are sent after
\* it, each send in a try of its own ("none": no local file to attach).
GrupoFoto(res) == <<"grupo_foto", res>>
ResultadosFoto == {"ok", "fail", "none"}
NotificacionConFotos(g, f) ==
    IF g = "fail" \/ f = "none" THEN << Grupo(g) >> ELSE << Grupo(g), GrupoFoto(f) >>

\* The outcomes of one group notification.
GrupoResultados == {"ok", "fail"}

\* What one block "get a connection, insert the rows one by one" can emit:
\* get_db_connection gives no connection and nothing is attempted on the
\* tables; every insert succeeds; or the k-th insert raises, after the rows
\* before it were stored, and the exception is swallowed.
NoFila == [tabla |-> "-"]
Persistir(filas) ==
    { << Db("noconn", NoFila) >> }
    \cup { [i \in 1..Len(filas) |-> Db("ok", filas[i])] }
    \cup { [i \in 1..k |-> IF i < k THEN Db("ok", filas[i]) ELSE Db("error", filas[i])] :
             k \in 1..Len(filas) }

Init ==
    /\ storage = [u \in Users |-> [state |-> NoState, data |-> NoData]]
    /\ user_last_activity = <<>>
    /\ out = [user |-> "u1", ev |-> <<>>]
    /\ tareas = <<>>
    /\ event = [kind |-> "none", text |-> <<>>]
    /\ db_pool = SinPool
    /\ pools = <<>>

\* Time passes.  The code keeps the time of each user's last event and only
\* ever uses its distance to the current time: that distance is what the
\* table holds here, so a Tick ages every entry.  Idle times past MaxTime
\* are not told apart.
Tick ==
    /\ \E u \in DOMAIN user_last_activity : user_last_activity[u] + TickMinutes <= MaxTime
    /\ user_last_activity' =
          [u \in DOMAIN user_last_activity |->
              IF user_last_activity[u] + TickMinutes <= MaxTime
              THEN user_last_activity[u] + TickMinutes ELSE user_last_activity[u]]
    /\ UNCHANGED <<event, storage, out, tareas, db_pool, pools>>

\* ------------------------------------------------------- timeout middleware
\* The branch of timeout_middleware that reaps the session.
Expira(u) ==
    /\ u \in DOMAIN user_last_activity
    /\ user_last_activity[u] > TIMEOUT_MINUTES
    /\ storage[u].state # NoState
    /\ storage[u].state # menu_principal

FilaInactiva(user_id, state_name, data) ==
    IF EnNombre("ConductoresState", state_name) THEN
        [tabla |-> "conductores", telegram_id |-> user_id,
         cedula |-> Get(data, "cedula", INACTIVO),
         placa |-> Get(data, "placa", INACTIVO),
         tipo_carga |-> Get(data, "tipo_carga", INACTIVO),
         num_animales |-> Get(data, "num_animales", None),
         bascula |-> Get(data, "bascula", INACTIVO),
         cerdos_vivos |-> Get(data, "cerdos_vivos", None),
         cerdos_muertos |-> Get(data, "cerdos_muertos", None),
         peso |-> Get(data, "peso", 0), foto_pesaje |-> Get(data, "foto_pesaje", None)]
    ELSE IF EnNombre("OperarioSitio1State", state_name) THEN
        [tabla |-> "operario_fijo_granja", telegram_id |-> user_id,
         cedula |-> Get(data, "cedula", INACTIVO)]
    ELSE IF EnNombre("medicion", state_name) THEN
        [tabla |-> "operario_sitio3_medicion_silos", telegram_id |-> user_id,
         cedula |-> Get(data, "medicion_cedula", INACTIVO),
         silos_medidos |-> Get(data, "medicion_silos_seleccionados", INACTIVO),
         tipo_comida |-> Get(data, "medicion_tipo_comida", INACTIVO)]
    ELSE
        [tabla |-> "operario_sitio3_animales", telegram_id |-> user_id,
         cedula |-> Get(data, "sitio3_cedula", INACTIVO),
         rango_corrales |-> Get(data, "sitio3_rango_corrales", INACTIVO),
         tipo_comida |-> Get(data, "sitio3_tipo_comida", INACTIVO)]

\* What guardar_registro_inactivo can emit.
guardar_registro_inactivo(user_id, state_name, data) ==
    Persistir(<< FilaInactiva(user_id, state_name, data) >>)

timeout_middleware(u) ==
    /\ Expira(u)
    /\ \E m \in Mensajes :
       \E db \in guardar_registro_inactivo(u, storage[u].state, storage[u].data) :
        /\ event' = m
        /\ out' = [user |-> u, ev |-> db \o << Answer("expirada") >>]
        /\ storage' = [storage EXCEPT ![u] = [state |-> NoState, data |-> NoData]]
        /\ user_last_activity' =
              [x \in DOMAIN user_last_activity \ {u} |-> user_last_activity[x]]
        /\ UNCHANGED <<tareas, db_pool, pools>>

\* The update is let through.  The middleware is registered on the update
\* observer and tests hasattr(event, 'from_user'): when the event it is
\* given exposes its sender (and the session is not found expired) the time
\* of the event is recorded; when it does not, nothing is looked up and
\* nothing is recorded, and the handler runs all the same.
Registra(u) ==
    \/ ~Expira(u) /\ user_last_activity' = (u :> 0) @@ user_last_activity
    \/ user_last_activity' = user_last_activity

\* Mutant of Handle: the time of the event is recorded for every user.
Handle_todos(u, st, d, ev) ==
    /\ storage' = [storage EXCEPT ![u] = [state |-> st, data |-> d]]
    /\ user_last_activity' = [x \in DOMAIN user_last_activity \cup {u} |-> 0]
    /\ out' = [user |-> u, ev |-> ev]
    /\ UNCHANGED <<tareas, db_pool, pools>>

\* The other branches: the update is let through and the handler runs.
\* `Handle` is what every handler below ends with: the new state and fields
\* of the user and what the handler emitted.
Handle(u, st, d, ev) ==
    /\ storage' = [storage EXCEPT ![u] = [state |-> st, data |-> d]]
    /\ Registra(u)
    /\ out' = [user |-> u, ev |-> ev]
    /\ UNCHANGED <<tareas, db_pool, pools>>

St(u) == storage[u].state
Data(u) == storage[u].data

\* A reply that rejects the input and asks again: nothing else happens.
Reprompt(u) == Handle(u, St(u), Data(u), << Answer("error") >>)
\* The handler raises (message.text is None, for a photo, where a str method
\* is called on it; or the download of a photo fails outside any try): the
\* framework logs the error, nothing is sent and nothing is stored.
Raise(u) == Handle(u, St(u), Data(u), << <<"exception">> >>)
\* The next question is asked and the state set.
GoTo(u, st, d) == Handle(u, st, d, << Answer("prompt") >>)

\* ------------------------------------------------------- global handlers
EsCancelar(m) == EsTexto(m, T0)
EsStart(m) == EsTexto(m, TStart)
\* The event reaches the handlers registered for the states.
Pasa(u, m) == ~EsCancelar(m) /\ ~EsStart(m) /\ event' = m

volver_menu_principal(u, antes) ==
    Handle(u, menu_principal, NoData, antes \o << Answer("menu") >>)

cancelar_operacion(u) ==
    /\ \E m \in Mensajes :
        /\ EsCancelar(m)
        /\ event' = m
        /\ IF St(u) # NoState /\ St(u) # menu_principal
           THEN volver_menu_principal(u, << Answer("cancelada") >>)
           ELSE Handle(u, St(u), Data(u), <<>>)

start(u) ==
    /\ \E m \in Mensajes :
        /\ EsStart(m)
        /\ event' = m
        /\ Handle(u, menu_principal, NoData, << Answer("menu") >>)

\* The command /reporte_hoy, handled in every state of the session, which it
\* leaves as it is.  Without a connection a fixed message is answered; when a
\* query (or the sending of the report) raises, the text of the exception is
\* put into the answer.
TReporteHoy == <<"/","r","e","p","o","r","t","e","_","h","o","y">>
\* What a failing query raises, as str(e) renders it.
ErroresDelAlmacen == {<<"UndefinedTableError">>, <<"ConnectionDoesNotExistError">>}
AnswerConError(e) == <<"answer", "error_reporte", e>>
reporte_hoy(u) ==
    /\ event' = [kind |-> "text", text |-> TReporteHoy]
    /\ \/ Handle(u, St(u), Data(u), << Answer("sin_conexion") >>)
       \/ Handle(u, St(u), Data(u), << Answer("reporte") >>)
       \/ \E e \in ErroresDelAlmacen :
             Handle(u, St(u), Data(u), << AnswerConError(e) >>)

\* The states in which some messages match no handler registered before
\* fallback_handler: no state, the two menus (whose handlers are filtered by
\* the option's text) and the two confirmations of the weighing at
\* destination (whose handlers are filtered by "1" and "2").
SinHandler(st, m) ==
    \/ st = NoState
    \/ st = menu_principal /\ ~(m.kind = "text" /\ m.text \in {T1, T2, T3})
    \/ st = sitio3_menu /\ ~(m.kind = "text" /\ m.text \in {T1, T2, T3, T4, T5, T6})
    \/ /\ st \in {<<"RegistroState", "confirmar_peso_bascula">>,
                  <<"RegistroState", "confirmar_silo_peso">>}
       /\ ~(m.kind = "text" /\ m.text \in {T1, T2})

fallback_handler(u) ==
    /\ \E m \in Mensajes :
        /\ Pasa(u, m)
        /\ SinHandler(St(u), m)
        /\ Handle(u, St(u), Data(u),
                  << Answer(IF St(u) = NoState THEN "use_start" ELSE "fallback") >>)

\* ------------------------------------------------------------------ menus
volver_menu_sitio3(u) == GoTo(u, sitio3_menu, Data(u))

menu_operario_sitio3(u) ==
    /\ St(u) = menu_principal
    /\ Pasa(u, [kind |-> "text", text |-> T1])
    /\ volver_menu_sitio3(u)

menu_operario_sitio1(u) ==
    /\ St(u) = menu_principal
    /\ Pasa(u, [kind |-> "text", text |-> T2])
    /\ GoTo(u, OperarioSitio1State("cedula"), Upd(Data(u), "telegram_id", u))

menu_conductores(u) ==
    /\ St(u) = menu_principal
    /\ Pasa(u, [kind |-> "text", text |-> T3])
    /\ GoTo(u, ConductoresState("menu_conductores"), Upd(NoData, "telegram_id", u))

\* ------------------------------------------------------------- Conductores
Lechones == <<"Lechones">>
Concentrado == <<"Concentrado">>
CerdosGordos == <<"Cerdos Gordos">>
Combustible == <<"Combustible">>
PesoVacio == <<"Peso Vacío">>

\* The option of the drivers' menu a text selects (None: not an option).
OpcionTipoCarga(texto) ==
    IF Contains(texto, <<"1">>) \/ Contains(texto, <<"l","e","c","h","o","n">>) THEN Lechones
    ELSE IF Contains(texto, <<"2">>) \/ Contains(texto, <<"c","o","n","c","e","n","t","r","a","d","o">>) THEN Concentrado
    ELSE IF Contains(texto, <<"3">>) \/ Contains(texto, <<"c","e","r","d","o">>) \/ Contains(texto, <<"g","o","r","d","o">>)
         THEN CerdosGordos
    ELSE IF Contains(texto, <<"4">>) \/ Contains(texto, <<"c","o","m","b","u","s","t","i","b","l","e">>) THEN Combustible
    ELSE None

procesar_menu_conductores(u) ==
    /\ St(u) = ConductoresState("menu_conductores")
    /\ \E m \in Mensajes :
        /\ Pasa(u, m)
        /\ IF EsFoto(m) THEN Raise(u)
           ELSE LET texto == lower(strip(m.text))
                    tipo_carga == OpcionTipoCarga(texto)
                IN  IF tipo_carga # None
                    THEN GoTo(u, ConductoresState("cedula"),
                              Upd(Upd(Data(u), "tipo_carga", tipo_carga), "es_peso_vacio", FALSE))
                    ELSE IF Contains(texto, <<"5">>) \/ Contains(texto, <<"v","a","c">>)
                    THEN GoTo(u, ConductoresState("peso_vacio_tipo_carga"),
                              Upd(Upd(Data(u), "tipo_carga", PesoVacio), "es_peso_vacio", TRUE))
                    ELSE Reprompt(u)

procesar_peso_vacio_tipo_carga(u) ==
    /\ St(u) = ConductoresState("peso_vacio_tipo_carga")
    /\ \E m \in Mensajes :
        /\ Pasa(u, m)
        /\ IF EsFoto(m) THEN Raise(u)
           ELSE LET tipo_carga_referencia == OpcionTipoCarga(lower(strip(m.text)))
                IN  IF tipo_carga_referencia = None THEN Reprompt(u)
                    ELSE GoTo(u, ConductoresState("cedula"),
                              Upd(Data(u), "tipo_carga_referencia", tipo_carga_referencia))

procesar_cedula_conductor(u) ==
    /\ St(u) = ConductoresState("cedula")
    /\ \E m \in Valores :
        /\ Pasa(u, m)
        /\ IF EsFoto(m) THEN Raise(u)
           ELSE LET cedula == strip(m.text)
                IN  IF ~validar_cedula_sitio3(cedula) THEN Reprompt(u)
                    ELSE GoTo(u, ConductoresState("confirmar_cedula"),
                              Upd(Data(u), "cedula", cedula))

\* The identity number is confirmed: verificar_multiples_cedulas is called
\* with it.  It reads the rows stored earlier for the user; what the
\* database holds is left open here, so the check may find no connection,
\* no other identity number, or some.  When it finds some,
\* enviar_alerta_seguridad writes to the group, which may fail.  Whatever
\* happens, the next question is asked and the state set.
ResultadosVerificacion == {"noconn", "no", "si"}
Verifica(cedula, res) == << "verifica", cedula, res >>
Alerta(g) == << "alerta", g >>
\* Mutant of ConAlerta: a check that finds other identity numbers holds the
\* user at the confirmation.
ConAlerta_bloquea(u, st, d, cedula) ==
    \E res \in ResultadosVerificacion, g \in GrupoResultados :
        IF res = "si"
        THEN Handle(u, St(u), d, << Verifica(cedula, res), Alerta(g), Answer("error") >>)
        ELSE Handle(u, st, d, << Verifica(cedula, res), Answer("prompt") >>)

ConAlerta(u, st, d, cedula) ==
    \E res \in ResultadosVerificacion, g \in GrupoResultados :
        Handle(u, st, d,
               << Verifica(cedula, res) >>
               \o (IF res = "si" THEN << Alerta(g) >> ELSE <<>>)
               \o << Answer("prompt") >>)

\* The three handlers of ConductoresState.confirmar_cedula.
confirmar_cedula_conductor(u) ==
    /\ St(u) = ConductoresState("confirmar_cedula")
    /\ \E m \in Mensajes :
        /\ Pasa(u, m)
        /\ IF EsTexto(m, T1)
           THEN ConAlerta(u, ConductoresState("placa"), Data(u),
                          Get(Data(u), "cedula", None))
           ELSE IF EsTexto(m, T2) THEN GoTo(u, ConductoresState("cedula"), Data(u))
           ELSE Reprompt(u)

procesar_placa_conductor(u) ==
    /\ St(u) = ConductoresState("placa")
    /\ \E m \in Valores :
        /\ Pasa(u, m)
        /\ IF EsFoto(m) THEN Raise(u)
           ELSE LET placa == upper(strip(m.text))
                IN  IF ~validar_placa_conductor(placa) THEN Reprompt(u)
                    ELSE GoTo(u, ConductoresState("confirmar_placa"),
                              Upd(Data(u), "placa_temp", placa))

\* The answers of preguntar_confirmacion's keyboard, as the handlers test them.
EligeModificar(texto) == Contains(texto, <<"2">>) \/ Contains(texto, <<"m","o","d","i","f","i","c","a","r">>)
EligeConfirmar(texto) == Contains(texto, <<"1">>) \/ Contains(texto, <<"c","o","n","f","i","r","m","a","r">>)

\* Mutant of confirmar_placa_conductor: every cargo type other than the
\* animals and the fuel goes to the invoice number.
confirmar_placa_conductor_comodin(u) ==
    /\ St(u) = ConductoresState("confirmar_placa")
    /\ \E m \in Mensajes :
        /\ Pasa(u, m)
        /\ IF EsFoto(m) THEN Raise(u)
           ELSE LET texto == lower(strip(m.text))
                    data == Upd(Data(u), "placa", Get(Data(u), "placa_temp", None))
                    tipo_carga == Get(Data(u), "tipo_carga", None)
                IN  IF EligeModificar(texto) THEN GoTo(u, ConductoresState("placa"), Data(u))
                    ELSE IF ~EligeConfirmar(texto) THEN Reprompt(u)
                    ELSE IF tipo_carga = Lechones \/ tipo_carga = CerdosGordos
                    THEN GoTo(u, ConductoresState("num_animales"), data)
                    ELSE IF tipo_carga = Combustible
                    THEN GoTo(u, ConductoresState("tipo_combustible"), data)
                    ELSE GoTo(u, ConductoresState("numero_factura"), data)

\* "2"/modificar asks for the plate again; "1"/confirmar commits the plate
\* and goes on by the flag of the empty weight and then by the cargo type
\* (a cargo type that matches none of the branches gets no answer and no
\* new state); anything else is asked again.
confirmar_placa_conductor(u) ==
    /\ St(u) = ConductoresState("confirmar_placa")
    /\ \E m \in Mensajes :
        /\ Pasa(u, m)
        /\ IF EsFoto(m) THEN Raise(u)
           ELSE LET texto == lower(strip(m.text))
                    data == Upd(Data(u), "placa", Get(Data(u), "placa_temp", None))
                    tipo_carga == Get(Data(u), "tipo_carga", None)
                IN  IF EligeModificar(texto) THEN GoTo(u, ConductoresState("placa"), Data(u))
                    ELSE IF ~EligeConfirmar(texto) THEN Reprompt(u)
                    ELSE IF Get(Data(u), "es_peso_vacio", FALSE)
                    THEN GoTo(u, ConductoresState("bascula"), data)
                    ELSE IF tipo_carga = Lechones \/ tipo_carga = CerdosGordos
                    THEN GoTo(u, ConductoresState("num_animales"), data)
                    ELSE IF tipo_carga = Combustible
                    THEN GoTo(u, ConductoresState("tipo_combustible"), data)
                    ELSE IF tipo_carga = Concentrado
                    THEN GoTo(u, ConductoresState("numero_factura"), data)
                    ELSE Handle(u, St(u), data, <<>>)


\* A confirmation step of the drivers' flow: "2"/modificar goes back to
\* `atras`; "1"/confirmar commits the pending value `temp` as `campo` and
\* goes on to `siguiente`; anything else is asked again.
ConfirmarTemp(u, m, temp, campo, atras, siguiente) ==
    IF EsFoto(m) THEN Raise(u)
    ELSE LET texto == lower(strip(m.text))
         IN  IF EligeModificar(texto) THEN GoTo(u, atras, Data(u))
             ELSE IF EligeConfirmar(texto)
             THEN GoTo(u, siguiente, Upd(Data(u), campo, Get(Data(u), temp, None)))
             ELSE Reprompt(u)

preguntar_bascula(u, d) == GoTo(u, ConductoresState("bascula"), d)

procesar_num_animales(u) ==
    /\ St(u) = ConductoresState("num_animales")
    /\ \E m \in Valores :
        /\ Pasa(u, m)
        /\ IF EsFoto(m) THEN Raise(u)
           ELSE LET v == validar_numero_entero(strip(m.text), 1, 5000)
                IN  IF ~v[1] THEN Reprompt(u)
                    ELSE GoTo(u, ConductoresState("confirmar_num_animales"),
                              Upd(Data(u), "num_animales_temp", v[2]))

confirmar_num_animales(u) ==
    /\ St(u) = ConductoresState("confirmar_num_animales")
    /\ \E m \in Mensajes :
        /\ Pasa(u, m)
        /\ ConfirmarTemp(u, m, "num_animales_temp", "num_animales",
                         ConductoresState("num_animales"), ConductoresState("bascula"))

procesar_tipo_combustible(u) ==
    /\ St(u) = ConductoresState("tipo_combustible")
    /\ \E m \in Mensajes :
        /\ Pasa(u, m)
        /\ IF EsFoto(m) THEN Raise(u)
           ELSE LET tipo == title(strip(m.text))
                IN  IF tipo \notin {<<"D","i","e","s","e","l">>, <<"C","o","r","r","i","e","n","t","e">>} THEN Reprompt(u)
                    ELSE GoTo(u, ConductoresState("confirmar_tipo_combustible"),
                              Upd(Data(u), "tipo_combustible_temp", tipo))

confirmar_tipo_combustible(u) ==
    /\ St(u) = ConductoresState("confirmar_tipo_combustible")
    /\ \E m \in Mensajes :
        /\ Pasa(u, m)
        /\ ConfirmarTemp(u, m, "tipo_combustible_temp", "tipo_combustible",
                         ConductoresState("tipo_combustible"),
                         ConductoresState("cantidad_galones"))

procesar_cantidad_galones(u) ==
    /\ St(u) = ConductoresState("cantidad_galones")
    /\ \E m \in Valores :
        /\ Pasa(u, m)
        /\ IF EsFoto(m) THEN Raise(u)
           ELSE LET v == validar_galones(strip(m.text))
                IN  IF ~v[1] THEN Reprompt(u)
                    ELSE GoTo(u, ConductoresState("confirmar_cantidad_galones"),
                              Upd(Data(u), "cantidad_galones_temp", v[2]))

confirmar_cantidad_galones(u) ==
    /\ St(u) = ConductoresState("confirmar_cantidad_galones")
    /\ \E m \in Mensajes :
        /\ Pasa(u, m)
        /\ ConfirmarTemp(u, m, "cantidad_galones_temp", "cantidad_galones",
                         ConductoresState("cantidad_galones"), ConductoresState("bascula"))

\* Any text is taken as the invoice number.
procesar_numero_factura(u) ==
    /\ St(u) = ConductoresState("numero_factura")
    /\ \E m \in Libres :
        /\ Pasa(u, m)
        /\ IF EsFoto(m) THEN Raise(u)
           ELSE GoTo(u, ConductoresState("confirmar_numero_factura"),
                     Upd(Data(u), "numero_factura_temp", strip(m.text)))

confirmar_numero_factura(u) ==
    /\ St(u) = ConductoresState("confirmar_numero_factura")
    /\ \E m \in Mensajes :
        /\ Pasa(u, m)
        /\ ConfirmarTemp(u, m, "numero_factura_temp", "numero_factura",
                         ConductoresState("numero_factura"), ConductoresState("tipo_alimento"))

procesar_tipo_alimento(u) ==
    /\ St(u) = ConductoresState("tipo_alimento")
    /\ \E m \in Mensajes :
        /\ Pasa(u, m)
        /\ IF EsFoto(m) THEN Raise(u)
           ELSE LET texto == lower(strip(m.text))
                    tipo == IF Contains(texto, <<"1">>) \/ Contains(texto, <<"l","e","v","a","n","t","e">>)
                            THEN <<"Levante">>
                            ELSE IF Contains(texto, <<"2">>) \/ Contains(texto, <<"e","n","g","o","r","d","e">>)
                                    \/ Contains(texto, <<"m","e","d","i","c","a","d","o">>)
                            THEN <<"Engorde/Medicado">>
                            ELSE IF Contains(texto, <<"3">>) \/ Contains(texto, <<"f","i","n","a","l","i","z","a","d","o","r">>)
                            THEN <<"Finalizador">>
                            ELSE None
                IN  IF tipo = None THEN Reprompt(u)
                    ELSE GoTo(u, ConductoresState("confirmar_tipo_alimento"),
                              Upd(Data(u), "tipo_alimento_temp", tipo))

confirmar_tipo_alimento(u) ==
    /\ St(u) = ConductoresState("confirmar_tipo_alimento")
    /\ \E m \in Mensajes :
        /\ Pasa(u, m)
        /\ ConfirmarTemp(u, m, "tipo_alimento_temp", "tipo_alimento",
                         ConductoresState("tipo_alimento"), ConductoresState("kilos_comprados"))

procesar_kilos_comprados(u) ==
    /\ St(u) = ConductoresState("kilos_comprados")
    /\ \E m \in Valores :
        /\ Pasa(u, m)
        /\ IF EsFoto(m) THEN Raise(u)
           ELSE LET v == validar_galones(strip(m.text))
                IN  IF ~v[1] THEN Reprompt(u)
                    ELSE GoTo(u, ConductoresState("confirmar_kilos_comprados"),
                              Upd(Data(u), "kilos_comprados_temp", v[2]))

confirmar_kilos_comprados(u) ==
    /\ St(u) = ConductoresState("confirmar_kilos_comprados")
    /\ \E m \in Mensajes :
        /\ Pasa(u, m)
        /\ ConfirmarTemp(u, m, "kilos_comprados_temp", "kilos_comprados",
                         ConductoresState("kilos_comprados"), ConductoresState("factura_foto"))

\* upload_to_drive returns the public link of the uploaded file, or None
\* when the credentials or the folder are not configured or the upload fails.
upload_to_drive == {<<"drive_link">>, None}
\* The path of the file downloaded from the chat.
file_path == <<"file_path">>
\* Where a photo was stored, `drive_link or file_path`: the link, or the path
\* of the downloaded file when the upload gives none.
FotoGuardada(drive_link) == IF drive_link # None THEN drive_link ELSE file_path

\* procesar_factura_foto (a photo) and factura_foto_no_valida (anything else).
procesar_factura_foto(u) ==
    /\ St(u) = ConductoresState("factura_foto")
    /\ \E m \in Valores :
        /\ Pasa(u, m)
        /\ IF EsFoto(m)
           THEN \/ Raise(u)
                \/ \E drive_link \in upload_to_drive :
                      preguntar_bascula(u, Upd(Data(u), "factura_foto",
                                               FotoGuardada(drive_link)))
           ELSE Reprompt(u)


Italcol == <<"Báscula Italcol">>
Bogota == <<"Bogotá">>
FincaTranquera == <<"Finca Tranquera">>

\* The buttons of the keyboard confirmar_placa_conductor builds for Peso Vacío.
TecladoPesoVacio ==
    [kind : {"text"}, text : {<<"1", ".", " ", "G", "r", "a", "n", "j", "a">>,
                              <<"2", ".", " ", "B", "o", "g", "o", "t", "á">>}]

procesar_bascula(u) ==
    /\ St(u) = ConductoresState("bascula")
    /\ \E m \in Mensajes \cup TecladoPesoVacio :
        /\ Pasa(u, m)
        /\ IF EsFoto(m) THEN Raise(u)
           ELSE LET texto == lower(strip(m.text))
                    tipo_carga == Get(Data(u), "tipo_carga", None)
                    bascula ==
                        IF Contains(texto, <<"1">>) \/ Contains(texto, <<"i","t","a","l","c","o","l">>)
                        THEN (IF tipo_carga = Concentrado THEN Italcol ELSE None)
                        ELSE IF Contains(texto, <<"2">>) \/ Contains(texto, <<"b","o","g","o","t","a">>)
                                \/ Contains(texto, <<"b","o","g","o","t","á">>)
                        THEN (IF tipo_carga = CerdosGordos THEN Bogota ELSE None)
                        ELSE IF Contains(texto, <<"3">>) \/ Contains(texto, <<"f","i","n","c","a">>)
                                \/ Contains(texto, <<"t","r","a","n","q","u","e","r","a">>)
                        THEN FincaTranquera
                        ELSE None
                IN  IF bascula = None THEN Reprompt(u)
                    ELSE GoTo(u, ConductoresState("confirmar_bascula"),
                              Upd(Data(u), "bascula_temp", bascula))

confirmar_bascula(u) ==
    /\ St(u) = ConductoresState("confirmar_bascula")
    /\ \E m \in Mensajes :
        /\ Pasa(u, m)
        /\ ConfirmarTemp(u, m, "bascula_temp", "bascula", ConductoresState("bascula"),
                         IF Get(Data(u), "bascula_temp", None) = Bogota
                         THEN ConductoresState("cerdos_vivos") ELSE ConductoresState("peso"))

procesar_cerdos_vivos(u) ==
    /\ St(u) = ConductoresState("cerdos_vivos")
    /\ \E m \in Cantidades :
        /\ Pasa(u, m)
        /\ IF EsFoto(m) THEN Raise(u)
           ELSE LET v == validar_numero_entero(strip(m.text), 0, 5000)
                IN  IF ~v[1] THEN Reprompt(u)
                    ELSE GoTo(u, ConductoresState("confirmar_cerdos_vivos"),
                              Upd(Data(u), "cerdos_vivos_temp", v[2]))

confirmar_cerdos_vivos(u) ==
    /\ St(u) = ConductoresState("confirmar_cerdos_vivos")
    /\ \E m \in Mensajes :
        /\ Pasa(u, m)
        /\ IF EsFoto(m) THEN Raise(u)
           ELSE LET texto == lower(strip(m.text))
                    cantidad_vivos == Get(Data(u), "cerdos_vivos_temp", None)
                    total_animales == Get(Data(u), "num_animales", 0)
                    cerdos_muertos == total_animales - cantidad_vivos
                IN  IF EligeModificar(texto)
                    THEN GoTo(u, ConductoresState("cerdos_vivos"), Data(u))
                    ELSE IF EligeConfirmar(texto)
                    THEN GoTo(u, ConductoresState("peso"),
                              Upd(Upd(Data(u), "cerdos_vivos", cantidad_vivos),
                                  "cerdos_muertos", cerdos_muertos))
                    ELSE Reprompt(u)

procesar_peso(u) ==
    /\ St(u) = ConductoresState("peso")
    /\ \E m \in Valores :
        /\ Pasa(u, m)
        /\ IF EsFoto(m) THEN Raise(u)
           ELSE LET peso_texto == strip(m.text)
                IN  IF ~IsFloat(peso_texto) THEN Reprompt(u)
                    ELSE IF float(peso_texto) <= 0 THEN Reprompt(u)
                    ELSE IF float(peso_texto) > 100000 THEN Reprompt(u)
                    ELSE GoTo(u, ConductoresState("confirmar_peso_input"),
                              Upd(Data(u), "peso_temp", float(peso_texto)))

confirmar_peso_input(u) ==
    /\ St(u) = ConductoresState("confirmar_peso_input")
    /\ \E m \in Mensajes :
        /\ Pasa(u, m)
        /\ ConfirmarTemp(u, m, "peso_temp", "peso",
                         ConductoresState("peso"), ConductoresState("foto_pesaje"))

\* procesar_foto_pesaje (a photo) and foto_pesaje_no_valida (anything else).
procesar_foto_pesaje(u) ==
    /\ St(u) = ConductoresState("foto_pesaje")
    /\ \E m \in Valores :
        /\ Pasa(u, m)
        /\ IF EsFoto(m)
           THEN \/ Raise(u)
                \/ \E drive_link \in upload_to_drive :
                      GoTo(u, ConductoresState("confirmar_peso"),
                           Upd(Data(u), "foto_pesaje", FotoGuardada(drive_link)))
           ELSE Reprompt(u)

FilaConductor(data) ==
    [tabla |-> "conductores", telegram_id |-> Get(data, "telegram_id", None),
     cedula |-> Get(data, "cedula", None), placa |-> Get(data, "placa", None),
     tipo_carga |-> Get(data, "tipo_carga", None),
     num_animales |-> Get(data, "num_animales", None),
     bascula |-> Get(data, "bascula", None),
     cerdos_vivos |-> Get(data, "cerdos_vivos", None),
     cerdos_muertos |-> Get(data, "cerdos_muertos", None),
     peso |-> Get(data, "peso", None), foto_pesaje |-> Get(data, "foto_pesaje", None)]

\* Mutant of finalizar_flujo: the farewell is sent and the session is kept.
finalizar_flujo_sin_clear(u, antes) ==
    Handle(u, storage[u].state, storage[u].data, antes \o << Answer("finalizado") >>)

\* Every flow ends here: the session is cleared, the farewell is sent and no
\* state is set.
finalizar_flujo(u, antes) ==
    Handle(u, NoState, NoData, antes \o << Answer("finalizado") >>)

\* Mutant of guardar_registro_conductor: the group is notified first.
guardar_registro_conductor_notifica_antes(u, data) ==
    \E db \in Persistir(<< FilaConductor(data) >>), g \in GrupoResultados,
       f \in ResultadosFoto :
        finalizar_flujo(u, NotificacionConFotos(g, f) \o db \o << Answer("exito") >>)

guardar_registro_conductor(u, data) ==
    \E db \in Persistir(<< FilaConductor(data) >>), g \in GrupoResultados,
       f \in ResultadosFoto :
        finalizar_flujo(u, db \o NotificacionConFotos(g, f) \o << Answer("exito") >>)

confirmar_registro_conductor(u) ==
    /\ St(u) = ConductoresState("confirmar_peso")
    /\ \E m \in Mensajes :
        /\ Pasa(u, m)
        /\ IF EsFoto(m) THEN Raise(u)
           ELSE LET texto == lower(strip(m.text))
                IN  IF Contains(texto, <<"n","o">>) \/ Contains(texto, <<"c","a","n","c","e","l","a","r">>)
                    THEN volver_menu_principal(u, <<>>)
                    ELSE IF Contains(texto, <<"s","i">>) \/ Contains(texto, <<"c","o","n","f","i","r","m","a","r">>)
                            \/ Contains(texto, <<"s","í">>)
                    THEN guardar_registro_conductor(u, Data(u))
                    ELSE Reprompt(u)


\* ----------------------------------------------------------------- Sitio 1
procesar_cedula_sitio1(u) ==
    /\ St(u) = OperarioSitio1State("cedula")
    /\ \E m \in Valores :
        /\ Pasa(u, m)
        /\ IF EsFoto(m) THEN Raise(u)
           ELSE LET cedula == strip(m.text)
                IN  IF ~validar_cedula_sitio3(cedula) THEN Reprompt(u)
                    ELSE GoTo(u, OperarioSitio1State("confirmar_cedula"),
                              Upd(Data(u), "cedula", cedula))

\* The handlers of OperarioSitio1State.confirmar_cedula, in the order they are
\* registered: confirmar_cedula_sitio1_si ("1"), confirmar_cedula_sitio1_no
\* ("2"), then confirmar_cedula_sitio1 for every other message.
confirmar_cedula_sitio1(u) ==
    /\ St(u) = OperarioSitio1State("confirmar_cedula")
    /\ \E m \in Mensajes :
        /\ Pasa(u, m)
        /\ IF EsTexto(m, T1)
           THEN ConAlerta(u, OperarioSitio1State("cantidad_lechones"), Data(u),
                          Get(Data(u), "cedula", None))
           ELSE IF EsTexto(m, T2) THEN GoTo(u, OperarioSitio1State("cedula"), Data(u))
           ELSE ConfirmarTemp(u, m, "cedula_temp", "cedula", OperarioSitio1State("cedula"),
                              OperarioSitio1State("cantidad_pesajes"))

procesar_cantidad_lechones(u) ==
    /\ St(u) = OperarioSitio1State("cantidad_lechones")
    /\ \E m \in Valores :
        /\ Pasa(u, m)
        /\ IF EsFoto(m) THEN Raise(u)
           ELSE LET v == validar_numero_entero(strip(m.text), 1, 10000)
                IN  IF ~v[1] THEN Reprompt(u)
                    ELSE GoTo(u, OperarioSitio1State("confirmar_cantidad_lechones"),
                              Upd(Data(u), "cantidad_lechones", v[2]))

confirmar_cantidad_lechones(u) ==
    /\ St(u) = OperarioSitio1State("confirmar_cantidad_lechones")
    /\ \E m \in Mensajes :
        /\ Pasa(u, m)
        /\ IF EsFoto(m) THEN Raise(u)
           ELSE LET texto == lower(strip(m.text))
                IN  IF Contains(texto, <<"2">>) \/ Contains(texto, <<"e","d","i","t","a","r">>)
                       \/ Contains(texto, <<"n","o">>)
                    THEN GoTo(u, OperarioSitio1State("cantidad_lechones"), Data(u))
                    ELSE IF Contains(texto, <<"1">>) \/ Contains(texto, <<"c","o","n","f","i","r","m","a","r">>)
                            \/ Contains(texto, <<"s","í">>) \/ Contains(texto, <<"s","i">>)
                    THEN GoTo(u, OperarioSitio1State("cantidad_pesajes"), Data(u))
                    ELSE Reprompt(u)

procesar_cantidad_pesajes(u) ==
    /\ St(u) = OperarioSitio1State("cantidad_pesajes")
    /\ \E m \in Cantidades :
        /\ Pasa(u, m)
        /\ IF EsFoto(m) THEN Raise(u)
           ELSE LET v == validar_numero_entero(strip(m.text), 1, 1000)
                IN  IF ~v[1] THEN Reprompt(u)
                    ELSE GoTo(u, OperarioSitio1State("confirmar_cantidad_pesajes"),
                              Upd(Data(u), "cantidad_pesajes_temp", v[2]))

confirmar_cantidad_pesajes(u) ==
    /\ St(u) = OperarioSitio1State("confirmar_cantidad_pesajes")
    /\ \E m \in Mensajes :
        /\ Pasa(u, m)
        /\ ConfirmarTemp(u, m, "cantidad_pesajes_temp", "cantidad_pesajes",
                         OperarioSitio1State("cantidad_pesajes"),
                         OperarioSitio1State("lechones_por_pesaje"))

procesar_lechones_por_pesaje(u) ==
    /\ St(u) = OperarioSitio1State("lechones_por_pesaje")
    /\ \E m \in Valores :
        /\ Pasa(u, m)
        /\ IF EsFoto(m) THEN Raise(u)
           ELSE LET v == validar_numero_entero(strip(m.text), 1, 100)
                IN  IF ~v[1] THEN Reprompt(u)
                    ELSE GoTo(u, OperarioSitio1State("confirmar_lechones_por_pesaje"),
                              Upd(Data(u), "lechones_por_pesaje_temp", v[2]))

confirmar_lechones_por_pesaje(u) ==
    /\ St(u) = OperarioSitio1State("confirmar_lechones_por_pesaje")
    /\ \E m \in Mensajes :
        /\ Pasa(u, m)
        /\ IF EsFoto(m) THEN Raise(u)
           ELSE LET texto == lower(strip(m.text))
                    lechones == Get(Data(u), "lechones_por_pesaje_temp", None)
                IN  IF EligeModificar(texto)
                    THEN GoTo(u, OperarioSitio1State("lechones_por_pesaje"), Data(u))
                    ELSE IF EligeConfirmar(texto)
                    THEN GoTo(u, OperarioSitio1State("peso_pesaje"),
                              Upd(Upd(Upd(Upd(Data(u), "lechones_por_pesaje", lechones),
                                          "pesaje_actual", 1), "pesos", <<>>), "fotos", <<>>))
                    ELSE Reprompt(u)

procesar_peso_pesaje(u) ==
    /\ St(u) = OperarioSitio1State("peso_pesaje")
    /\ \E m \in Cantidades :
        /\ Pasa(u, m)
        /\ IF EsFoto(m) THEN Raise(u)
           ELSE LET v == validar_galones(strip(m.text))
                IN  IF ~v[1] \/ v[2] <= 0 THEN Reprompt(u)
                    ELSE GoTo(u, OperarioSitio1State("confirmar_peso"),
                              Upd(Data(u), "peso_temp", v[2]))

\* Mutant of confirmar_peso_pesaje: one more weighing is asked for when the
\* current one is the last.
confirmar_peso_pesaje_uno_mas(u) ==
    /\ St(u) = OperarioSitio1State("confirmar_peso")
    /\ \E m \in Mensajes :
        /\ Pasa(u, m)
        /\ IF EsFoto(m) THEN Raise(u)
           ELSE LET texto == lower(strip(m.text))
                    pesaje_actual == Get(Data(u), "pesaje_actual", None)
                    cantidad_pesajes == Get(Data(u), "cantidad_pesajes", None)
                    pesos == Append(Get(Data(u), "pesos", <<>>), Get(Data(u), "peso_temp", None))
                IN  IF EligeModificar(texto)
                    THEN GoTo(u, OperarioSitio1State("peso_pesaje"), Data(u))
                    ELSE IF ~EligeConfirmar(texto) THEN Reprompt(u)
                    ELSE IF pesaje_actual <= cantidad_pesajes
                    THEN GoTo(u, OperarioSitio1State("peso_pesaje"),
                              Upd(Upd(Data(u), "pesos", pesos), "pesaje_actual", pesaje_actual + 1))
                    ELSE GoTo(u, OperarioSitio1State("foto_final"), Upd(Data(u), "pesos", pesos))

\* "2"/modificar asks for the weight again; "1"/confirmar appends the weight
\* to the list and asks for the next weighing, or for the final photo after
\* the last; anything else is asked again.
confirmar_peso_pesaje(u) ==
    /\ St(u) = OperarioSitio1State("confirmar_peso")
    /\ \E m \in Mensajes :
        /\ Pasa(u, m)
        /\ IF EsFoto(m) THEN Raise(u)
           ELSE LET texto == lower(strip(m.text))
                    pesaje_actual == Get(Data(u), "pesaje_actual", None)
                    cantidad_pesajes == Get(Data(u), "cantidad_pesajes", None)
                    pesos == Append(Get(Data(u), "pesos", <<>>), Get(Data(u), "peso_temp", None))
                IN  IF EligeModificar(texto)
                    THEN GoTo(u, OperarioSitio1State("peso_pesaje"), Data(u))
                    ELSE IF ~EligeConfirmar(texto) THEN Reprompt(u)
                    ELSE IF pesaje_actual < cantidad_pesajes
                    THEN GoTo(u, OperarioSitio1State("peso_pesaje"),
                              Upd(Upd(Data(u), "pesos", pesos), "pesaje_actual", pesaje_actual + 1))
                    ELSE GoTo(u, OperarioSitio1State("foto_final"), Upd(Data(u), "pesos", pesos))

FilaSitio1(data) ==
    [tabla |-> "operario_fijo_granja", telegram_id |-> Get(data, "telegram_id", None),
     cedula |-> Get(data, "cedula", None),
     cantidad_pesajes |-> Get(data, "cantidad_pesajes", None),
     pesos_detalle |-> Get(data, "pesos", <<>>),
     foto_confirmacion |-> Get(data, "foto_confirmacion", <<"Sin foto">>)]

guardar_registro_sitio1(data) == Persistir(<< FilaSitio1(data) >>)

\* enviar_notificacion_grupo_sitio1 sends the text and then reads
\* fotos_locales, a name the function never binds: the send may fail, and the
\* NameError after it is swallowed with every other exception.
enviar_notificacion_grupo_sitio1(g) == << Grupo(g) >>

\* Mutant of finalizar_registro_sitio1: when the group cannot be notified
\* the photo is asked for again and the flow does not end.
finalizar_registro_sitio1_reintenta(u, data) ==
    \E db \in guardar_registro_sitio1(data), g \in GrupoResultados :
        IF g = "fail"
        THEN Handle(u, storage[u].state, storage[u].data,
                    db \o enviar_notificacion_grupo_sitio1(g) \o << Answer("error") >>)
        ELSE finalizar_flujo(u, db \o enviar_notificacion_grupo_sitio1(g)
                                \o << Answer("exito") >>)

finalizar_registro_sitio1(u, data) ==
    \E db \in guardar_registro_sitio1(data), g \in GrupoResultados :
        finalizar_flujo(u, db \o enviar_notificacion_grupo_sitio1(g) \o << Answer("exito") >>)

\* procesar_foto_final (a photo) and foto_final_invalida (anything else).
procesar_foto_final(u) ==
    /\ St(u) = OperarioSitio1State("foto_final")
    /\ \E m \in Valores :
        /\ Pasa(u, m)
        /\ IF EsFoto(m)
           THEN \/ Raise(u)
                \/ \E foto_url \in upload_to_drive :
                      finalizar_registro_sitio1(
                          u, Upd(Data(u), "foto_confirmacion",
                                 IF foto_url # None THEN foto_url ELSE <<"Sin foto">>))
           ELSE Reprompt(u)


\* ------------------------------------------------- Operario Sitio 3: menu
Uuid == <<"uuid4">>

sitio3_registro_consumo_lote(u) ==
    /\ St(u) = sitio3_menu
    /\ Pasa(u, [kind |-> "text", text |-> T1])
    /\ GoTo(u, RegistroState("sitio3", "cedula"),
            Upd(Upd(Data(u), "sitio3_session_id", Uuid), "sitio3_corrales", <<>>))

sitio3_ingreso_concentrado_silo(u) ==
    /\ St(u) = sitio3_menu
    /\ Pasa(u, [kind |-> "text", text |-> T2])
    /\ GoTo(u, RegistroState("medicion", "cedula"),
            Upd(Upd(Data(u), "medicion_session_id", Uuid), "medicion_silos_procesados", <<>>))

sitio3_ingreso_lechones(u) ==
    /\ St(u) = sitio3_menu
    /\ Pasa(u, [kind |-> "text", text |-> T3])
    /\ GoTo(u, RegistroState("descarga", "cedula"), Data(u))

sitio3_registro_celdas_carga(u) ==
    /\ St(u) = sitio3_menu
    /\ Pasa(u, [kind |-> "text", text |-> T4])
    /\ GoTo(u, RegistroState("celdas", "cedula"),
            Upd(Upd(Data(u), "celdas_session_id", Uuid), "celdas_registros", <<>>))

sitio3_registro_combustible(u) ==
    /\ St(u) = sitio3_menu
    /\ Pasa(u, [kind |-> "text", text |-> T5])
    /\ GoTo(u, RegistroState("combustible", "cedula"),
            Upd(Data(u), "combustible_session_id", Uuid))

sitio3_traslado_corrales(u) ==
    /\ St(u) = sitio3_menu
    /\ Pasa(u, [kind |-> "text", text |-> T6])
    /\ GoTo(u, RegistroState("traslado", "cedula"), Upd(Data(u), "traslado_session_id", Uuid))

\* ---------------------------------- Operario Sitio 3: consumption by lot
sitio3_get_cedula(u) ==
    /\ St(u) = RegistroState("sitio3", "cedula")
    /\ \E m \in Valores :
        /\ Pasa(u, m)
        /\ IF EsFoto(m) THEN Raise(u)
           ELSE LET cedula == strip(m.text)
                IN  IF ~validar_cedula_sitio3(cedula) THEN Reprompt(u)
                    ELSE GoTo(u, RegistroState("sitio3", "confirmar_cedula"),
                              Upd(Data(u), "sitio3_cedula", cedula))

\* sitio3_confirmar_cedula_si, _no and _invalido.
sitio3_confirmar_cedula(u) ==
    /\ St(u) = RegistroState("sitio3", "confirmar_cedula")
    /\ \E m \in Mensajes :
        /\ Pasa(u, m)
        /\ IF EsTexto(m, T1) THEN ConAlerta(u, RegistroState("sitio3", "numero_banda"), Data(u),
                                          Get(Data(u), "sitio3_cedula", None))
           ELSE IF EsTexto(m, T2) THEN GoTo(u, RegistroState("sitio3", "cedula"), Data(u))
           ELSE Reprompt(u)

sitio3_get_banda(u) ==
    /\ St(u) = RegistroState("sitio3", "numero_banda")
    /\ \E m \in Libres :
        /\ Pasa(u, m)
        /\ IF EsFoto(m) THEN Raise(u)
           ELSE LET v == validar_numero_banda(strip(m.text))
                IN  IF ~v[1] THEN Reprompt(u)
                    ELSE GoTo(u, RegistroState("sitio3", "rango_corrales"),
                              Upd(Data(u), "sitio3_banda_temp", v[2]))

\* Mutant of sitio3_get_rango: the range is stored before it is validated.
sitio3_get_rango_guarda_antes(u) ==
    /\ St(u) = RegistroState("sitio3", "rango_corrales")
    /\ \E m \in Valores :
        /\ Pasa(u, m)
        /\ IF EsFoto(m) THEN Raise(u)
           ELSE LET rango == strip(m.text)
                    data == Upd(Data(u), "sitio3_rango_temp", rango)
                IN  IF ~validar_rango_corrales(rango, 9)
                    THEN Handle(u, St(u), data, << Answer("error") >>)
                    ELSE GoTo(u, RegistroState("sitio3", "tipo_comida"), data)

sitio3_get_rango(u) ==
    /\ St(u) = RegistroState("sitio3", "rango_corrales")
    /\ \E m \in Valores :
        /\ Pasa(u, m)
        /\ IF EsFoto(m) THEN Raise(u)
           ELSE LET rango == strip(m.text)
                IN  IF ~validar_rango_corrales(rango, 9) THEN Reprompt(u)
                    ELSE GoTo(u, RegistroState("sitio3", "tipo_comida"),
                              Upd(Data(u), "sitio3_rango_temp", rango))

TiposComida == {<<"L","e","v","a","n","t","e">>, <<"E","n","g","o","r","d","e"," ","/"," ","L","e","v","a","n","t","e"," ","3"," ","m","e","d","i","c","a","d","o">>, <<"F","i","n","a","l","i","z","a","d","o","r">>}

\* sitio3_get_tipo_comida (one of the three labels) and
\* sitio3_tipo_comida_invalido (anything else).
sitio3_get_tipo_comida(u) ==
    /\ St(u) = RegistroState("sitio3", "tipo_comida")
    /\ \E m \in Mensajes :
        /\ Pasa(u, m)
        /\ IF m.kind = "text" /\ m.text \in TiposComida
           THEN GoTo(u, RegistroState("sitio3", "resumen_confirmacion"),
                     Upd(Data(u), "sitio3_tipo_comida_temp", m.text))
           ELSE Reprompt(u)

\* Mutant of sitio3_resumen_confirmacion: the confirmed band replaces the list.
sitio3_resumen_confirmacion_reemplaza(u) ==
    /\ St(u) = RegistroState("sitio3", "resumen_confirmacion")
    /\ \E m \in Mensajes :
        /\ Pasa(u, m)
        /\ IF EsFoto(m) THEN Raise(u)
           ELSE LET respuesta == upper(strip(m.text))
                    corrales == Append(<<>>,
                                       [banda |-> Data(u)["sitio3_banda_temp"],
                                        rango |-> Data(u)["sitio3_rango_temp"],
                                        tipo_comida |-> Data(u)["sitio3_tipo_comida_temp"]])
                IN  IF respuesta = <<"O","K">>
                    THEN GoTo(u, RegistroState("sitio3", "agregar_mas"),
                              Upd(Data(u), "sitio3_corrales", corrales))
                    ELSE IF respuesta = T1
                    THEN GoTo(u, RegistroState("sitio3", "rango_corrales"), Data(u))
                    ELSE IF respuesta = T2
                    THEN GoTo(u, RegistroState("sitio3", "numero_banda"), Data(u))
                    ELSE IF respuesta = T3
                    THEN GoTo(u, RegistroState("sitio3", "tipo_comida"), Data(u))
                    ELSE Reprompt(u)

\* "OK" adds the band to the list; "1", "2", "3" go back to edit a field.
sitio3_resumen_confirmacion(u) ==
    /\ St(u) = RegistroState("sitio3", "resumen_confirmacion")
    /\ \E m \in Mensajes :
        /\ Pasa(u, m)
        /\ IF EsFoto(m) THEN Raise(u)
           ELSE LET respuesta == upper(strip(m.text))
                    corrales == Append(Get(Data(u), "sitio3_corrales", <<>>),
                                       [banda |-> Data(u)["sitio3_banda_temp"],
                                        rango |-> Data(u)["sitio3_rango_temp"],
                                        tipo_comida |-> Data(u)["sitio3_tipo_comida_temp"]])
                IN  IF respuesta = <<"O","K">>
                    THEN GoTo(u, RegistroState("sitio3", "agregar_mas"),
                              Upd(Data(u), "sitio3_corrales", corrales))
                    ELSE IF respuesta = T1
                    THEN GoTo(u, RegistroState("sitio3", "rango_corrales"), Data(u))
                    ELSE IF respuesta = T2
                    THEN GoTo(u, RegistroState("sitio3", "numero_banda"), Data(u))
                    ELSE IF respuesta = T3
                    THEN GoTo(u, RegistroState("sitio3", "tipo_comida"), Data(u))
                    ELSE Reprompt(u)

FilasSitio3(data, user_id) ==
    LET corrales == Get(data, "sitio3_corrales", <<>>) IN
    [i \in 1..Len(corrales) |->
        [tabla |-> "operario_sitio3_animales", telegram_id |-> user_id,
         cedula |-> Get(data, "sitio3_cedula", None), bandas |-> corrales[i].banda,
         rango_corrales |-> corrales[i].rango, tipo_comida |-> corrales[i].tipo_comida]]

sitio3_terminar_registro(u) ==
    IF Get(Data(u), "sitio3_corrales", <<>>) = <<>>
    THEN Handle(u, sitio3_menu, Data(u), << Answer("error"), Answer("prompt") >>)
    ELSE \E db \in Persistir(FilasSitio3(Data(u), u)), g \in GrupoResultados :
            finalizar_flujo(u, db \o << Grupo(g), Answer("exito") >>)

\* sitio3_agregar_otro_corral, sitio3_terminar_registro and
\* sitio3_agregar_mas_invalido.
sitio3_agregar_mas(u) ==
    /\ St(u) = RegistroState("sitio3", "agregar_mas")
    /\ \E m \in Mensajes :
        /\ Pasa(u, m)
        /\ IF m.kind = "text" /\ m.text \in {<<"(check mark)"," ","S","í",","," ","o","t","r","a"," ","b","a","n","d","a">>, <<"S","í">>, <<"S","i">>, <<"1">>}
           THEN /\ Len(Get(Data(u), "sitio3_corrales", <<>>)) < MaxItems
                /\ GoTo(u, RegistroState("sitio3", "numero_banda"), Data(u))
           ELSE IF m.kind = "text" /\ m.text \in {<<"(cross mark)"," ","N","o",","," ","t","e","r","m","i","n","a","r">>, <<"N","o">>, <<"2">>}
           THEN sitio3_terminar_registro(u)
           ELSE Reprompt(u)


\* A confirmation step of the Sitio 3 flows, made of three handlers: "1"
\* goes on to `si`, "2" back to `no`, anything else is asked again.
SiNoInvalido(u, m, si, no) ==
    IF EsTexto(m, T1) THEN GoTo(u, si, Data(u))
    ELSE IF EsTexto(m, T2) THEN GoTo(u, no, Data(u))
    ELSE Reprompt(u)

\* ------------------------------------- Operario Sitio 3: piglet intake
descarga_get_cedula(u) ==
    /\ St(u) = RegistroState("descarga", "cedula")
    /\ \E m \in Valores :
        /\ Pasa(u, m)
        /\ IF EsFoto(m) THEN Raise(u)
           ELSE LET cedula == strip(m.text)
                IN  IF ~validar_cedula_sitio3(cedula) THEN Reprompt(u)
                    ELSE GoTo(u, RegistroState("descarga", "confirmar_cedula"),
                              Upd(Data(u), "descarga_cedula", cedula))

\* descarga_confirmar_cedula_si, _no and _invalido.
descarga_confirmar_cedula(u) ==
    /\ St(u) = RegistroState("descarga", "confirmar_cedula")
    /\ \E m \in Mensajes :
        /\ Pasa(u, m)
        /\ IF EsTexto(m, T1)
           THEN ConAlerta(u, RegistroState("descarga", "cantidad_lechones"), Data(u),
                          Get(Data(u), "descarga_cedula", None))
           ELSE IF EsTexto(m, T2) THEN GoTo(u, RegistroState("descarga", "cedula"), Data(u))
           ELSE Reprompt(u)

descarga_get_cantidad(u) ==
    /\ St(u) = RegistroState("descarga", "cantidad_lechones")
    /\ \E m \in Valores :
        /\ Pasa(u, m)
        /\ IF EsFoto(m) THEN Raise(u)
           ELSE LET v == validar_cantidad_lechones(strip(m.text))
                IN  IF ~v[1] THEN Reprompt(u)
                    ELSE GoTo(u, RegistroState("descarga", "confirmar_cantidad"),
                              Upd(Data(u), "descarga_cantidad", v[2]))

\* descarga_confirmar_cantidad_si, _no and _invalido.
descarga_confirmar_cantidad(u) ==
    /\ St(u) = RegistroState("descarga", "confirmar_cantidad")
    /\ \E m \in Mensajes :
        /\ Pasa(u, m)
        /\ SiNoInvalido(u, m, RegistroState("descarga", "rango_corrales"),
                        RegistroState("descarga", "cantidad_lechones"))

descarga_get_rango(u) ==
    /\ St(u) = RegistroState("descarga", "rango_corrales")
    /\ \E m \in Valores :
        /\ Pasa(u, m)
        /\ IF EsFoto(m) THEN Raise(u)
           ELSE LET rango == strip(m.text)
                IN  IF ~validar_rango_corrales(rango, 0) THEN Reprompt(u)
                    ELSE GoTo(u, RegistroState("descarga", "confirmar_rango"),
                              Upd(Data(u), "descarga_rango", rango))

\* descarga_confirmar_rango_si, _no and _invalido.
descarga_confirmar_rango(u) ==
    /\ St(u) = RegistroState("descarga", "confirmar_rango")
    /\ \E m \in Mensajes :
        /\ Pasa(u, m)
        /\ SiNoInvalido(u, m, RegistroState("descarga", "numero_lote"),
                        RegistroState("descarga", "rango_corrales"))

descarga_get_lote(u) ==
    /\ St(u) = RegistroState("descarga", "numero_lote")
    /\ \E m \in Valores :
        /\ Pasa(u, m)
        /\ IF EsFoto(m) THEN Raise(u)
           ELSE LET numero_lote == strip(m.text)
                IN  IF ~validar_numero_lote(numero_lote) THEN Reprompt(u)
                    ELSE GoTo(u, RegistroState("descarga", "confirmar_lote"),
                              Upd(Data(u), "descarga_lote", numero_lote))

FilaDescarga(data, user_id) ==
    [tabla |-> "operario_sitio3_descarga_animales", telegram_id |-> user_id,
     cedula |-> Get(data, "descarga_cedula", None),
     cantidad_lechones |-> Get(data, "descarga_cantidad", None),
     rango_corrales |-> Get(data, "descarga_rango", None),
     numero_lote |-> Get(data, "descarga_lote", None)]

descarga_confirmar_lote_si(u) ==
    \E db \in Persistir(<< FilaDescarga(Data(u), u) >>), g \in GrupoResultados :
        finalizar_flujo(u, << Answer("guardando") >> \o db \o << Grupo(g), Answer("exito") >>)

\* descarga_confirmar_lote_no and _invalido.
descarga_confirmar_lote_no(u, m) ==
    IF EsTexto(m, T2) THEN GoTo(u, RegistroState("descarga", "numero_lote"), Data(u))
    ELSE Reprompt(u)

\* descarga_confirmar_lote_si, _no and _invalido.
descarga_confirmar_lote(u) ==
    /\ St(u) = RegistroState("descarga", "confirmar_lote")
    /\ \E m \in Mensajes :
        /\ Pasa(u, m)
        /\ IF EsTexto(m, T1) THEN descarga_confirmar_lote_si(u)
           ELSE descarga_confirmar_lote_no(u, m)

\* ------------------------------- Operario Sitio 3: concentrate into a silo
validar_peso_kilos_descargue(valor) ==
    IF ~IsFloat(valor) THEN << FALSE, 0 >>
    ELSE IF float(valor) <= 0 THEN << FALSE, 0 >>
    ELSE IF float(valor) > 25000 THEN << FALSE, 0 >>
    ELSE << TRUE, float(valor) >>

validar_silo_unico(valor) ==
    LET valor_limpio == strip(valor) IN
    IF ~IsInt(valor_limpio) THEN << FALSE, 0 >>
    ELSE IF int(valor_limpio) < 1 \/ int(valor_limpio) > 6 THEN << FALSE, 0 >>
    ELSE << TRUE, int(valor_limpio) >>

medicion_get_cedula(u) ==
    /\ St(u) = RegistroState("medicion", "cedula")
    /\ \E m \in Valores :
        /\ Pasa(u, m)
        /\ IF EsFoto(m) THEN Raise(u)
           ELSE LET cedula == strip(m.text)
                IN  IF ~validar_cedula_sitio3(cedula) THEN Reprompt(u)
                    ELSE GoTo(u, RegistroState("medicion", "confirmar_cedula"),
                              Upd(Data(u), "medicion_cedula", cedula))

\* medicion_confirmar_cedula_si, _no and _invalido.
medicion_confirmar_cedula(u) ==
    /\ St(u) = RegistroState("medicion", "confirmar_cedula")
    /\ \E m \in Mensajes :
        /\ Pasa(u, m)
        /\ IF EsTexto(m, T1)
           THEN ConAlerta(u, RegistroState("medicion", "seleccion_silos"), Data(u),
                          Get(Data(u), "medicion_cedula", None))
           ELSE IF EsTexto(m, T2) THEN GoTo(u, RegistroState("medicion", "cedula"), Data(u))
           ELSE Reprompt(u)

\* medicion_get_silo ("1".."6") and medicion_silo_invalido (anything else).
medicion_get_silo(u) ==
    /\ St(u) = RegistroState("medicion", "seleccion_silos")
    /\ \E m \in Mensajes :
        /\ Pasa(u, m)
        /\ IF m.kind = "text" /\ m.text \in {T1, T2, T3, T4, T5, T6}
           THEN LET v == validar_silo_unico(strip(m.text))
                IN  IF ~v[1] THEN Reprompt(u)
                    ELSE GoTo(u, RegistroState("medicion", "confirmar_silos"),
                              Upd(Data(u), "medicion_silo_actual", v[2]))
           ELSE Reprompt(u)

\* medicion_confirmar_silo_si, _no and _invalido.
medicion_confirmar_silo(u) ==
    /\ St(u) = RegistroState("medicion", "confirmar_silos")
    /\ \E m \in Mensajes :
        /\ Pasa(u, m)
        /\ SiNoInvalido(u, m, RegistroState("medicion", "tipo_comida"),
                        RegistroState("medicion", "seleccion_silos"))

\* medicion_get_tipo_comida (one of the three labels) and
\* medicion_tipo_comida_invalido (anything else).
medicion_get_tipo_comida(u) ==
    /\ St(u) = RegistroState("medicion", "tipo_comida")
    /\ \E m \in Mensajes :
        /\ Pasa(u, m)
        /\ IF m.kind = "text" /\ m.text \in TiposComida
           THEN GoTo(u, RegistroState("medicion", "peso_descargue"),
                     Upd(Data(u), "medicion_tipo_comida", m.text))
           ELSE Reprompt(u)

medicion_get_peso_descargue(u) ==
    /\ St(u) = RegistroState("medicion", "peso_descargue")
    /\ \E m \in Valores :
        /\ Pasa(u, m)
        /\ IF EsFoto(m) THEN Raise(u)
           ELSE LET v == validar_peso_kilos_descargue(strip(m.text))
                IN  IF ~v[1] THEN Reprompt(u)
                    ELSE GoTo(u, RegistroState("medicion", "confirmar_peso_descargue"),
                              Upd(Data(u), "medicion_peso_descargue", v[2]))

\* medicion_confirmar_peso_si, _no and _invalido.
medicion_confirmar_peso(u) ==
    /\ St(u) = RegistroState("medicion", "confirmar_peso_descargue")
    /\ \E m \in Mensajes :
        /\ Pasa(u, m)
        /\ SiNoInvalido(u, m, RegistroState("medicion", "foto_factura"),
                        RegistroState("medicion", "peso_descargue"))

\* medicion_guardar_foto_factura (a photo: it is downloaded and the silo is
\* added to the list, or the download raises and the user is asked to send
\* it again) and medicion_foto_factura_invalida (anything else).
medicion_guardar_foto_factura(u) ==
    /\ St(u) = RegistroState("medicion", "foto_factura")
    /\ \E m \in Valores :
        /\ Pasa(u, m)
        /\ IF EsFoto(m)
           THEN \/ \E drive_link \in upload_to_drive :
                    GoTo(u, RegistroState("medicion", "agregar_mas"),
                        Upd(Data(u), "medicion_silos_procesados",
                            Append(Get(Data(u), "medicion_silos_procesados", <<>>),
                                   [numero |-> Get(Data(u), "medicion_silo_actual", None),
                                    tipo_comida |-> Get(Data(u), "medicion_tipo_comida", None),
                                    peso_descargue |-> Get(Data(u), "medicion_peso_descargue", None),
                                    foto_factura |-> FotoGuardada(drive_link)])))
                \/ Reprompt(u)
           ELSE Reprompt(u)

FilasMedicion(data, user_id) ==
    LET silos_procesados == Get(data, "medicion_silos_procesados", <<>>) IN
    [i \in 1..Len(silos_procesados) |->
        [tabla |-> "operario_sitio3_medicion_silos", telegram_id |-> user_id,
         cedula |-> Get(data, "medicion_cedula", None),
         silos_medidos |-> silos_procesados[i].numero,
         tipo_comida |-> silos_procesados[i].tipo_comida,
         peso_descargue |-> silos_procesados[i].peso_descargue]]

\* Mutant of medicion_finalizar_registro: the photos of the invoices are sent
\* first and a failure there ends the notification, the text unsent.
medicion_finalizar_registro_sin_texto(u) ==
    IF Get(Data(u), "medicion_silos_procesados", <<>>) = <<>>
    THEN Handle(u, sitio3_menu, Data(u), << Answer("error"), Answer("prompt") >>)
    ELSE \E db \in Persistir(FilasMedicion(Data(u), u)), g \in GrupoResultados,
            f \in ResultadosFoto :
            finalizar_flujo(u, db \o (IF f = "fail" THEN << GrupoFoto(f) >>
                                      ELSE NotificacionConFotos(g, f))
                               \o << Answer("exito") >>)

medicion_finalizar_registro(u) ==
    IF Get(Data(u), "medicion_silos_procesados", <<>>) = <<>>
    THEN Handle(u, sitio3_menu, Data(u), << Answer("error"), Answer("prompt") >>)
    ELSE \E db \in Persistir(FilasMedicion(Data(u), u)), g \in GrupoResultados,
            f \in ResultadosFoto :
            finalizar_flujo(u, db \o NotificacionConFotos(g, f) \o << Answer("exito") >>)

\* medicion_agregar_otro_silo, medicion_finalizar_registro and
\* medicion_agregar_mas_invalido.  The list holds at most MaxItems silos.
medicion_agregar_mas(u) ==
    /\ St(u) = RegistroState("medicion", "agregar_mas")
    /\ \E m \in Mensajes :
        /\ Pasa(u, m)
        /\ IF m.kind = "text" /\ m.text \in {<<"(check mark)"," ","S","í",","," ","o","t","r","o"," ","s","i","l","o">>, <<"S","í">>, <<"S","i">>, <<"1">>}
           THEN /\ Len(Get(Data(u), "medicion_silos_procesados", <<>>)) < MaxItems
                /\ GoTo(u, RegistroState("medicion", "seleccion_silos"), Data(u))
           ELSE IF m.kind = "text" /\ m.text \in {<<"(cross mark)"," ","N","o",","," ","f","i","n","a","l","i","z","a","r">>, <<"N","o">>, <<"2">>}
           THEN medicion_finalizar_registro(u)
           ELSE Reprompt(u)

\* ------------------------------------------ Operario Sitio 3: load cells
celdas_get_cedula(u) ==
    /\ St(u) = RegistroState("celdas", "cedula")
    /\ \E m \in Valores :
        /\ Pasa(u, m)
        /\ IF EsFoto(m) THEN Raise(u)
           ELSE IF ~validar_cedula(m.text) THEN Reprompt(u)
           ELSE GoTo(u, RegistroState("celdas", "confirmar_cedula"),
                     Upd(Data(u), "celdas_cedula", m.text))

\* celdas_confirmar_cedula_si, _no and _invalido.
celdas_confirmar_cedula(u) ==
    /\ St(u) = RegistroState("celdas", "confirmar_cedula")
    /\ \E m \in Mensajes :
        /\ Pasa(u, m)
        /\ SiNoInvalido(u, m, RegistroState("celdas", "seleccion_silo"),
                        RegistroState("celdas", "cedula"))

celdas_seleccionar_silo(u) ==
    /\ St(u) = RegistroState("celdas", "seleccion_silo")
    /\ \E m \in Valores :
        /\ Pasa(u, m)
        /\ IF EsFoto(m) THEN Raise(u)
           ELSE LET v == validar_silo_unico(m.text)
                IN  IF ~v[1] THEN Reprompt(u)
                    ELSE GoTo(u, RegistroState("celdas", "confirmar_silo"),
                              Upd(Data(u), "celdas_silo", v[2]))

\* celdas_confirmar_silo_si, _no and _invalido.
celdas_confirmar_silo(u) ==
    /\ St(u) = RegistroState("celdas", "confirmar_silo")
    /\ \E m \in Mensajes :
        /\ Pasa(u, m)
        /\ SiNoInvalido(u, m, RegistroState("celdas", "saldo"),
                        RegistroState("celdas", "seleccion_silo"))

celdas_get_saldo(u) ==
    /\ St(u) = RegistroState("celdas", "saldo")
    /\ \E m \in Libres :
        /\ Pasa(u, m)
        /\ IF EsFoto(m) THEN Raise(u)
           ELSE LET saldo == strip(m.text)
                IN  IF saldo = <<>> THEN Reprompt(u)
                    ELSE GoTo(u, RegistroState("celdas", "confirmar_saldo"),
                              Upd(Data(u), "celdas_saldo", saldo))

\* celdas_confirmar_saldo_si, _no and _invalido.
celdas_confirmar_saldo(u) ==
    /\ St(u) = RegistroState("celdas", "confirmar_saldo")
    /\ \E m \in Mensajes :
        /\ Pasa(u, m)
        /\ SiNoInvalido(u, m, RegistroState("celdas", "foto"),
                        RegistroState("celdas", "saldo"))

\* celdas_recibir_foto calls upload_to_drive with three arguments; the
\* function takes two, the TypeError is swallowed and foto_drive_id keeps its
\* initial None.
foto_drive_id_celdas == None

FilaCeldas(data, user_id) ==
    [tabla |-> "operario_sitio3_celdas_carga", telegram_id |-> user_id,
     cedula |-> Get(data, "celdas_cedula", None),
     numero_silo |-> Get(data, "celdas_silo", None),
     saldo_celda |-> Get(data, "celdas_saldo", None),
     foto_celda |-> foto_drive_id_celdas]

\* celdas_recibir_foto (a photo: the download may raise before anything is
\* stored; otherwise the silo's record is stored and notified at once) and
\* celdas_foto_invalida (anything else).
celdas_recibir_foto(u) ==
    /\ St(u) = RegistroState("celdas", "foto")
    /\ \E m \in Valores :
        /\ Pasa(u, m)
        /\ IF EsFoto(m)
           THEN \/ Raise(u)
                \/ \E db \in Persistir(<< FilaCeldas(Data(u), u) >>), g \in GrupoResultados,
                      f \in ResultadosFoto :
                      Handle(u, RegistroState("celdas", "agregar_mas"), Data(u),
                             db \o NotificacionConFotos(g, f) \o << Answer("exito") >>)
           ELSE Reprompt(u)

\* celdas_agregar_mas_si, _no and _invalido.
celdas_agregar_mas(u) ==
    /\ St(u) = RegistroState("celdas", "agregar_mas")
    /\ \E m \in Mensajes :
        /\ Pasa(u, m)
        /\ IF m.kind = "text" /\ Contains(m.text, <<"S","í">>)
           THEN GoTo(u, RegistroState("celdas", "seleccion_silo"), Data(u))
           ELSE IF m.kind = "text" /\ Contains(m.text, <<"N","o">>)
           THEN finalizar_flujo(u, << Answer("completado") >>)
           ELSE Reprompt(u)

\* ------------------------------------------------ Operario Sitio 3: fuel
TGasolina == <<"G","a","s","o","l","i","n","a">>
TPlanta1 == <<"P","l","a","n","t","a"," ","1">>
TOtros == <<"O","t","r","o","s">>
TVehiculo == <<"V","e","h","í","c","u","l","o">>
TFinca == <<"F","i","n","c","a">>
\* What is sent where a labelled button is expected.
Etiquetas == [kind : {"text"}, text : {T1, TDiesel, TGasolina, TPlanta1, TOtros, TVehiculo,
                                        TFinca}] \cup {Foto}

combustible_get_cedula(u) ==
    /\ St(u) = RegistroState("combustible", "cedula")
    /\ \E m \in Valores :
        /\ Pasa(u, m)
        /\ IF EsFoto(m) THEN Raise(u)
           ELSE IF ~validar_cedula(m.text) THEN Reprompt(u)
           ELSE GoTo(u, RegistroState("combustible", "confirmar_cedula"),
                     Upd(Data(u), "combustible_cedula", m.text))

\* combustible_confirmar_cedula_si, _no and _invalido.
combustible_confirmar_cedula(u) ==
    /\ St(u) = RegistroState("combustible", "confirmar_cedula")
    /\ \E m \in Mensajes :
        /\ Pasa(u, m)
        /\ SiNoInvalido(u, m, RegistroState("combustible", "tipo"),
                        RegistroState("combustible", "cedula"))

combustible_seleccionar_tipo(u) ==
    /\ St(u) = RegistroState("combustible", "tipo")
    /\ \E m \in Etiquetas :
        /\ Pasa(u, m)
        /\ IF EsFoto(m) THEN Raise(u)
           ELSE LET texto == lower(m.text)
                IN  IF Contains(texto, <<"d","i","e","s","e","l">>)
                    THEN GoTo(u, RegistroState("combustible", "equipo"),
                              Upd(Data(u), "combustible_tipo", << "Diesel" >>))
                    ELSE IF Contains(texto, <<"g","a","s","o","l","i","n","a">>)
                    THEN GoTo(u, RegistroState("combustible", "equipo"),
                              Upd(Data(u), "combustible_tipo", << "Gasolina" >>))
                    ELSE Reprompt(u)

mostrar_centro_costo(u, d) == GoTo(u, RegistroState("combustible", "centro_costo"), d)

combustible_seleccionar_equipo(u) ==
    /\ St(u) = RegistroState("combustible", "equipo")
    /\ \E m \in Etiquetas :
        /\ Pasa(u, m)
        /\ IF EsFoto(m) THEN Raise(u)
           ELSE LET texto == lower(m.text)
                    tipo_combustible == Get(Data(u), "combustible_tipo", None)
                    equipo(e) == Upd(Data(u), "combustible_equipo", << e >>)
                IN  IF tipo_combustible = << "Diesel" >>
                    THEN IF Contains(texto, <<"p","l","a","n","t","a"," ","1">>)
                         THEN mostrar_centro_costo(u, equipo("Planta 1"))
                         ELSE IF Contains(texto, <<"p","l","a","n","t","a"," ","2">>)
                         THEN mostrar_centro_costo(u, equipo("Planta 2"))
                         ELSE IF Contains(texto, <<"o","t","r","o","s">>)
                         THEN GoTo(u, RegistroState("combustible", "nombre_equipo"),
                                   equipo("Otros"))
                         ELSE Reprompt(u)
                    ELSE IF tipo_combustible = << "Gasolina" >>
                    THEN IF Contains(texto, <<"c","a","n","-","a","m">>) \/ Contains(texto, <<"c","a","n","a","m">>)
                         THEN mostrar_centro_costo(u, equipo("Can-am"))
                         ELSE IF Contains(texto, <<"v","e","h","í","c","u","l","o">>) \/ Contains(texto, <<"v","e","h","i","c","u","l","o">>)
                         THEN GoTo(u, RegistroState("combustible", "placa"),
                                   equipo("Vehículo"))
                         ELSE IF Contains(texto, <<"e","q","u","i","p","o">>)
                         THEN GoTo(u, RegistroState("combustible", "nombre_equipo"),
                                   equipo("Equipos"))
                         ELSE Reprompt(u)
                    ELSE Handle(u, St(u), Data(u), <<>>)

combustible_get_placa(u) ==
    /\ St(u) = RegistroState("combustible", "placa")
    /\ \E m \in Valores :
        /\ Pasa(u, m)
        /\ IF EsFoto(m) THEN Raise(u)
           ELSE LET placa == upper(strip(m.text))
                IN  IF ~validar_placa(placa) THEN Reprompt(u)
                    ELSE GoTo(u, RegistroState("combustible", "confirmar_placa"),
                              Upd(Data(u), "combustible_placa", placa))

\* combustible_confirmar_placa_si, _no and _invalido.
combustible_confirmar_placa(u) ==
    /\ St(u) = RegistroState("combustible", "confirmar_placa")
    /\ \E m \in Mensajes :
        /\ Pasa(u, m)
        /\ SiNoInvalido(u, m, RegistroState("combustible", "centro_costo"),
                        RegistroState("combustible", "placa"))

combustible_get_nombre_equipo(u) ==
    /\ St(u) = RegistroState("combustible", "nombre_equipo")
    /\ \E m \in Libres :
        /\ Pasa(u, m)
        /\ IF EsFoto(m) THEN Raise(u)
           ELSE LET nombre == strip(m.text)
                IN  IF Len(nombre) < 2 THEN Reprompt(u)
                    ELSE GoTo(u, RegistroState("combustible", "confirmar_nombre_equipo"),
                              Upd(Data(u), "combustible_nombre_equipo", nombre))

\* combustible_confirmar_nombre_si, _no and _invalido.
combustible_confirmar_nombre(u) ==
    /\ St(u) = RegistroState("combustible", "confirmar_nombre_equipo")
    /\ \E m \in Mensajes :
        /\ Pasa(u, m)
        /\ SiNoInvalido(u, m, RegistroState("combustible", "centro_costo"),
                        RegistroState("combustible", "nombre_equipo"))

combustible_seleccionar_centro(u) ==
    /\ St(u) = RegistroState("combustible", "centro_costo")
    /\ \E m \in Etiquetas :
        /\ Pasa(u, m)
        /\ IF EsFoto(m) THEN Raise(u)
           ELSE LET texto == lower(m.text)
                    centro == IF Contains(texto, <<"p","o","r","c","i","c","u","l","t","u","r","a">>) THEN << "Porcicultura" >>
                              ELSE IF Contains(texto, <<"f","i","n","c","a">>) THEN << "Finca" >>
                              ELSE IF Contains(texto, <<"a","d","m","i","n","i","s","t","r","a","t","i","v","o">>)
                              THEN << "Administrativo" >>
                              ELSE IF Contains(texto, <<"m","a","n","a","k","a","o">>) THEN << "Manakao" >>
                              ELSE IF Contains(texto, <<"e","x","t","e","r","n","o">>) THEN << "Externo" >>
                              ELSE None
                IN  IF centro = None THEN Reprompt(u)
                    ELSE GoTo(u, RegistroState("combustible", "confirmar_centro_costo"),
                              Upd(Data(u), "combustible_centro_costo", centro))

FilaCombustible(data, user_id) ==
    [tabla |-> "operario_sitio3_combustible", telegram_id |-> user_id,
     cedula |-> Get(data, "combustible_cedula", None),
     tipo_combustible |-> Get(data, "combustible_tipo", None),
     equipo_maquinaria |-> Get(data, "combustible_equipo", None),
     placa_vehiculo |-> Get(data, "combustible_placa", None),
     nombre_equipo |-> Get(data, "combustible_nombre_equipo", None),
     centro_costo |-> Get(data, "combustible_centro_costo", None)]

combustible_confirmar_centro_si(u) ==
    \E db \in Persistir(<< FilaCombustible(Data(u), u) >>), g \in GrupoResultados :
        finalizar_flujo(u, db \o << Grupo(g), Answer("exito") >>)

\* combustible_confirmar_centro_si, _no and _invalido.
combustible_confirmar_centro(u) ==
    /\ St(u) = RegistroState("combustible", "confirmar_centro_costo")
    /\ \E m \in Mensajes :
        /\ Pasa(u, m)
        /\ IF EsTexto(m, T1) THEN combustible_confirmar_centro_si(u)
           ELSE IF EsTexto(m, T2) THEN mostrar_centro_costo(u, Data(u))
           ELSE Reprompt(u)

\* ------------------------------------------ Operario Sitio 3: pen transfer
traslado_get_cedula(u) ==
    /\ St(u) = RegistroState("traslado", "cedula")
    /\ \E m \in Valores :
        /\ Pasa(u, m)
        /\ IF EsFoto(m) THEN Raise(u)
           ELSE IF ~validar_cedula(m.text) THEN Reprompt(u)
           ELSE GoTo(u, RegistroState("traslado", "confirmar_cedula"),
                     Upd(Data(u), "traslado_cedula", m.text))

\* traslado_confirmar_cedula_si, _no and _invalido.
traslado_confirmar_cedula(u) ==
    /\ St(u) = RegistroState("traslado", "confirmar_cedula")
    /\ \E m \in Mensajes :
        /\ Pasa(u, m)
        /\ SiNoInvalido(u, m, RegistroState("traslado", "corral_origen"),
                        RegistroState("traslado", "cedula"))

traslado_get_corral_origen(u) ==
    /\ St(u) = RegistroState("traslado", "corral_origen")
    /\ \E m \in Libres :
        /\ Pasa(u, m)
        /\ IF EsFoto(m) THEN Raise(u)
           ELSE LET corral == strip(m.text)
                IN  IF corral = <<>> THEN Reprompt(u)
                    ELSE GoTo(u, RegistroState("traslado", "confirmar_origen"),
                              Upd(Data(u), "traslado_corral_origen", corral))

\* traslado_confirmar_origen_si, _no and _invalido.
traslado_confirmar_origen(u) ==
    /\ St(u) = RegistroState("traslado", "confirmar_origen")
    /\ \E m \in Mensajes :
        /\ Pasa(u, m)
        /\ SiNoInvalido(u, m, RegistroState("traslado", "corral_destino"),
                        RegistroState("traslado", "corral_origen"))

traslado_get_corral_destino(u) ==
    /\ St(u) = RegistroState("traslado", "corral_destino")
    /\ \E m \in Libres :
        /\ Pasa(u, m)
        /\ IF EsFoto(m) THEN Raise(u)
           ELSE LET corral == strip(m.text)
                IN  IF corral = <<>> THEN Reprompt(u)
                    ELSE IF corral = Get(Data(u), "traslado_corral_origen", None)
                    THEN Reprompt(u)
                    ELSE GoTo(u, RegistroState("traslado", "confirmar_destino"),
                              Upd(Data(u), "traslado_corral_destino", corral))

FilaTraslado(data, user_id) ==
    [tabla |-> "operario_sitio3_traslado_corrales", telegram_id |-> user_id,
     cedula |-> Get(data, "traslado_cedula", None),
     corral_origen |-> Get(data, "traslado_corral_origen", None),
     corral_destino |-> Get(data, "traslado_corral_destino", None)]

traslado_confirmar_destino_si(u) ==
    \E db \in Persistir(<< FilaTraslado(Data(u), u) >>), g \in GrupoResultados :
        finalizar_flujo(u, db \o << Grupo(g), Answer("exito") >>)

\* traslado_confirmar_destino_si, _no and _invalido.
traslado_confirmar_destino(u) ==
    /\ St(u) = RegistroState("traslado", "confirmar_destino")
    /\ \E m \in Mensajes :
        /\ Pasa(u, m)
        /\ IF EsTexto(m, T1) THEN traslado_confirmar_destino_si(u)
           ELSE IF EsTexto(m, T2)
           THEN GoTo(u, RegistroState("traslado", "corral_destino"), Data(u))
           ELSE Reprompt(u)

Next ==
    \/ Tick
    \/ \E u \in Users :
        \/ timeout_middleware(u)
        \/ cancelar_operacion(u)
        \/ start(u)
        \/ reporte_hoy(u)
        \/ fallback_handler(u)
        \/ menu_operario_sitio3(u)
        \/ menu_operario_sitio1(u)
        \/ menu_conductores(u)
        \/ procesar_menu_conductores(u)
        \/ procesar_peso_vacio_tipo_carga(u)
        \/ procesar_cedula_conductor(u)
        \/ confirmar_cedula_conductor(u)
        \/ procesar_placa_conductor(u)
        \/ confirmar_placa_conductor(u)
        \/ procesar_num_animales(u)
        \/ confirmar_num_animales(u)
        \/ procesar_tipo_combustible(u)
        \/ confirmar_tipo_combustible(u)
        \/ procesar_cantidad_galones(u)
        \/ confirmar_cantidad_galones(u)
        \/ procesar_numero_factura(u)
        \/ confirmar_numero_factura(u)
        \/ procesar_tipo_alimento(u)
        \/ confirmar_tipo_alimento(u)
        \/ procesar_kilos_comprados(u)
        \/ confirmar_kilos_comprados(u)
        \/ procesar_factura_foto(u)
        \/ procesar_bascula(u)
        \/ confirmar_bascula(u)
        \/ procesar_cerdos_vivos(u)
        \/ confirmar_cerdos_vivos(u)
        \/ procesar_peso(u)
        \/ confirmar_peso_input(u)
        \/ procesar_foto_pesaje(u)
        \/ confirmar_registro_conductor(u)
        \/ procesar_cedula_sitio1(u)
        \/ confirmar_cedula_sitio1(u)
        \/ procesar_cantidad_lechones(u)
        \/ confirmar_cantidad_lechones(u)
        \/ procesar_cantidad_pesajes(u)
        \/ confirmar_cantidad_pesajes(u)
        \/ procesar_lechones_por_pesaje(u)
        \/ confirmar_lechones_por_pesaje(u)
        \/ procesar_peso_pesaje(u)
        \/ confirmar_peso_pesaje(u)
        \/ procesar_foto_final(u)
        \/ sitio3_registro_consumo_lote(u)
        \/ sitio3_ingreso_concentrado_silo(u)
        \/ sitio3_ingreso_lechones(u)
        \/ sitio3_registro_celdas_carga(u)
        \/ sitio3_registro_combustible(u)
        \/ sitio3_traslado_corrales(u)
        \/ sitio3_get_cedula(u)
        \/ sitio3_confirmar_cedula(u)
        \/ sitio3_get_banda(u)
        \/ sitio3_get_rango(u)
        \/ sitio3_get_tipo_comida(u)
        \/ sitio3_resumen_confirmacion(u)
        \/ sitio3_agregar_mas(u)
        \/ descarga_get_cedula(u)
        \/ descarga_confirmar_cedula(u)
        \/ descarga_get_cantidad(u)
        \/ descarga_confirmar_cantidad(u)
        \/ descarga_get_rango(u)
        \/ descarga_confirmar_rango(u)
        \/ descarga_get_lote(u)
        \/ descarga_confirmar_lote(u)
        \/ medicion_get_cedula(u)
        \/ medicion_confirmar_cedula(u)
        \/ medicion_get_silo(u)
        \/ medicion_confirmar_silo(u)
        \/ medicion_get_tipo_comida(u)
        \/ medicion_get_peso_descargue(u)
        \/ medicion_confirmar_peso(u)
        \/ medicion_guardar_foto_factura(u)
        \/ medicion_agregar_mas(u)
        \/ celdas_get_cedula(u)
        \/ celdas_confirmar_cedula(u)
        \/ celdas_seleccionar_silo(u)
        \/ celdas_confirmar_silo(u)
        \/ celdas_get_saldo(u)
        \/ celdas_confirmar_saldo(u)
        \/ celdas_recibir_foto(u)
        \/ celdas_agregar_mas(u)
        \/ combustible_get_cedula(u)
        \/ combustible_confirmar_cedula(u)
        \/ combustible_seleccionar_tipo(u)
        \/ combustible_seleccionar_equipo(u)
        \/ combustible_get_placa(u)
        \/ combustible_confirmar_placa(u)
        \/ combustible_get_nombre_equipo(u)
        \/ combustible_confirmar_nombre(u)
        \/ combustible_seleccionar_centro(u)
        \/ combustible_confirmar_centro(u)
        \/ traslado_get_cedula(u)
        \/ traslado_confirmar_cedula(u)
        \/ traslado_get_corral_origen(u)
        \/ traslado_confirmar_origen(u)
        \/ traslado_get_corral_destino(u)
        \/ traslado_confirmar_destino(u)

Spec == Init /\ [][Next]_vars

\* ------------------------------------------------- concurrent dispatch
\* Dispatcher.start_polling handles every update in a task of its own, and
\* the dispatcher is built without events isolation: a handler that awaits a
\* reply, the database, the group or a sleep is suspended there, and the
\* task of another update, of the same user or of another one, runs
\* meanwhile.  SpecConc is the piglet intake with the handler that completes
\* it cut at its awaits, so that a second update of the user can be handled
\* while the first one's handler is suspended.  No time passes in it.
MaxTareas == 2

Quitar(s, i) == SubSeq(s, 1, i - 1) \o SubSeq(s, i + 1, Len(s))

\* The middleware records the event, the filters (state confirmar_lote, text
\* "1") select descarga_confirmar_lote_si, which awaits its first reply.
descarga_confirmar_lote_si_inicio(u) ==
    /\ St(u) = RegistroState("descarga", "confirmar_lote")
    /\ Len(tareas) < MaxTareas
    /\ Pasa(u, [kind |-> "text", text |-> T1])
    /\ Registra(u)
    /\ out' = [user |-> u, ev |-> << Answer("guardando") >>]
    /\ tareas' = Append(tareas, [user |-> u, pc |-> "guardar", data |-> NoData,
                                 guardado |-> FALSE])
    /\ UNCHANGED <<storage, db_pool, pools>>

\* It reads the fields the session holds by now and stores the row.  The
\* task keeps the fields it read when the row was stored (nothing below
\* depends on them otherwise).
descarga_confirmar_lote_si_guardar(i) ==
    /\ i \in DOMAIN tareas
    /\ tareas[i].pc = "guardar"
    /\ LET u == tareas[i].user IN
       \E db \in Persistir(<< FilaDescarga(Data(u), u) >>) :
          /\ out' = [user |-> u, ev |-> db]
          /\ tareas' = [tareas EXCEPT ![i] = [user |-> u, pc |-> "notificar",
                                              data |-> IF db[1][2] = "ok" THEN Data(u)
                                                       ELSE NoData,
                                              guardado |-> db[1][2] = "ok"]]
          /\ UNCHANGED <<event, storage, user_last_activity, db_pool, pools>>

\* It notifies the group.
descarga_confirmar_lote_si_notificar(i) ==
    /\ i \in DOMAIN tareas
    /\ tareas[i].pc = "notificar"
    /\ \E g \in GrupoResultados :
          /\ out' = [user |-> tareas[i].user, ev |-> << Grupo(g) >>]
          /\ tareas' = [tareas EXCEPT ![i].pc = "resumen"]
          /\ UNCHANGED <<event, storage, user_last_activity, db_pool, pools>>

\* It tells the user the record was saved, and sleeps a second.
descarga_confirmar_lote_si_resumen(i) ==
    /\ i \in DOMAIN tareas
    /\ tareas[i].pc = "resumen"
    /\ out' = [user |-> tareas[i].user, ev |-> << Answer("exito") >>]
    /\ tareas' = [tareas EXCEPT ![i].pc = "finalizar"]
    /\ UNCHANGED <<event, storage, user_last_activity, db_pool, pools>>

\* finalizar_flujo: whatever the session holds by now is cleared.
descarga_confirmar_lote_si_finalizar(i) ==
    /\ i \in DOMAIN tareas
    /\ tareas[i].pc = "finalizar"
    /\ storage' = [storage EXCEPT ![tareas[i].user] = [state |-> NoState, data |-> NoData]]
    /\ out' = [user |-> tareas[i].user, ev |-> << Answer("finalizado") >>]
    /\ tareas' = Quitar(tareas, i)
    /\ UNCHANGED <<event, user_last_activity, db_pool, pools>>

\* The other two handlers of the state.
descarga_confirmar_lote_otro(u) ==
    /\ St(u) = RegistroState("descarga", "confirmar_lote")
    /\ \E m \in Mensajes :
        /\ Pasa(u, m)
        /\ ~EsTexto(m, T1)
        /\ descarga_confirmar_lote_no(u, m)

NextConc ==
    \/ \E u \in Users :
        \/ start(u)
        \/ menu_operario_sitio3(u)
        \/ sitio3_ingreso_lechones(u)
        \/ descarga_get_cedula(u)
        \/ descarga_confirmar_cedula(u)
        \/ descarga_get_cantidad(u)
        \/ descarga_confirmar_cantidad(u)
        \/ descarga_get_rango(u)
        \/ descarga_confirmar_rango(u)
        \/ descarga_get_lote(u)
        \/ descarga_confirmar_lote_otro(u)
        \/ descarga_confirmar_lote_si_inicio(u)
    \/ \E i \in 1..MaxTareas :
        \/ descarga_confirmar_lote_si_guardar(i)
        \/ descarga_confirmar_lote_si_notificar(i)
        \/ descarga_confirmar_lote_si_resumen(i)
        \/ descarga_confirmar_lote_si_finalizar(i)

SpecConc == Init /\ [][NextConc]_vars

\* ---------------------------------------------------------- two users
\* SpecDos is the program with two users, whose updates are handled in any
\* order, over the first steps of the piglet intake, with time passing.  The
\* branch of timeout_middleware that reaps a session is cut at its awaits
\* (the database, then the reply), so that updates of either user are
\* handled while a reap is suspended.
Usuarios == {"u1", "u2"}
MaxExpiradas == 1

InitDos ==
    /\ storage = [u \in Usuarios |-> [state |-> NoState, data |-> NoData]]
    /\ user_last_activity = <<>>
    /\ out = [user |-> "u1", ev |-> <<>>]
    /\ tareas = <<>>
    /\ event = [kind |-> "none", text |-> <<>>]
    /\ db_pool = SinPool
    /\ pools = <<>>

\* The session is found expired, its state and fields are read and the
\* inactive row is stored.
timeout_middleware_guardar(u) ==
    /\ Expira(u)
    /\ Len(tareas) < MaxExpiradas
    /\ \E m \in Mensajes :
       \E db \in guardar_registro_inactivo(u, St(u), Data(u)) :
          /\ event' = m
          /\ out' = [user |-> u, ev |-> db]
          /\ tareas' = Append(tareas, [user |-> u, pc |-> "expirada", data |-> Data(u),
                                       guardado |-> db[1][2] = "ok"])
          /\ UNCHANGED <<storage, user_last_activity, db_pool, pools>>

\* The user is told, the session is cleared and the user's entry is deleted
\* (a KeyError when another reap of the user deleted it before).
timeout_middleware_limpiar(i) ==
    /\ i \in DOMAIN tareas
    /\ tareas[i].pc = "expirada"
    /\ out' = [user |-> tareas[i].user, ev |-> << Answer("expirada") >>]
    /\ storage' = [storage EXCEPT ![tareas[i].user] = [state |-> NoState, data |-> NoData]]
    /\ user_last_activity' =
          [x \in DOMAIN user_last_activity \ {tareas[i].user} |-> user_last_activity[x]]
    /\ tareas' = Quitar(tareas, i)
    /\ UNCHANGED <<event, db_pool, pools>>

NextDos ==
    \/ Tick
    \/ \E u \in Usuarios :
        \/ timeout_middleware_guardar(u)
        \/ cancelar_operacion(u)
        \/ start(u)
        \/ fallback_handler(u)
        \/ menu_operario_sitio3(u)
        \/ sitio3_ingreso_lechones(u)
        \/ descarga_get_cedula(u)
        \/ descarga_confirmar_cedula(u)
    \/ \E i \in 1..MaxExpiradas : timeout_middleware_limpiar(i)

SpecDos == InitDos /\ [][NextDos]_vars

\* ================================================================ claims
\* What the handling of the last event emitted.
Hay(tipo) == \E i \in DOMAIN out.ev : out.ev[i][1] = tipo
Respondio(kind) == \E i \in DOMAIN out.ev : out.ev[i][1] = "answer" /\ out.ev[i][2] = kind
Guardo(res) == \E i \in DOMAIN out.ev : out.ev[i][1] = "db" /\ out.ev[i][2] = res
Notifico(res) == \E i \in DOMAIN out.ev : out.ev[i][1] = "grupo" /\ out.ev[i][2] = res
SesionVacia(u) == storage[u] = [state |-> NoState, data |-> NoData]
EnFlujo(u) == storage[u].state # NoState /\ storage[u].state # menu_principal

\* The handling of the last event rejected it.
C1_Rechazado == out.ev = << Answer("error") >> \/ out.ev = << Answer("fallback") >>

\* C1: an event that the handler of the state rejects (the reply is the
\* error re-prompt of a validator or of an option list, or the fallback
\* reply) leaves the state and every field of the session as they were.  So
\* a rejected input followed by a valid one gives what the valid one alone
\* gives, and a rejected input delivered twice gives what it gives once.
C1_RechazoSinCambio == [][C1_Rechazado' => storage' = storage]_vars
\* A range that the validator of the lot consumption rejected, in a session
\* that already holds fields.
C1_Testigo ==
    /\ out.ev = << Answer("error") >>
    /\ event = [kind |-> "text", text |-> TPlaca]
    /\ storage["u1"].state = RegistroState("sitio3", "rango_corrales")
    /\ "sitio3_banda_temp" \in DOMAIN storage["u1"].data

\* C2: in every state of a flow, the text "0" discards the fields, leaves the
\* session at the main menu, and neither stores a record nor notifies the
\* group.
C2_CancelarSiempre ==
    [][(event' = [kind |-> "text", text |-> T0] /\ EnFlujo("u1") /\ storage' # storage)
        => /\ storage'["u1"] = [state |-> menu_principal, data |-> NoData]
           /\ ~Hay("db")' /\ ~Hay("grupo")']_vars

\* C3: when the completing handler of a flow has returned, the session has
\* no state and no fields, whatever the database and the group did; and
\* every handler that reports a saved record ends that way, but for the
\* load cells, whose records are saved one by one inside the loop.
C3_SesionVaciaAlFinalizar ==
    /\ Respondio("finalizado") => SesionVacia(out.user)
    /\ (Respondio("exito") \/ Respondio("completado"))
          => \/ Respondio("finalizado")
             \/ storage[out.user].state = RegistroState("celdas", "agregar_mas")
\* A flow that completed while the insert raised and the group could not be
\* reached.
C3_Testigo ==
    /\ Respondio("finalizado") /\ Guardo("error") /\ Notifico("fail")
    /\ SesionVacia(out.user)

\* C4: the group is notified of a record only after the attempt to store it.
C4_GuardarAntesDeNotificar ==
    \A i \in DOMAIN out.ev :
        out.ev[i][1] = "grupo" => \E j \in 1..(i - 1) : out.ev[j][1] = "db"
C4_Testigo ==
    /\ Len(out.ev) >= 2
    /\ out.ev[1][1] = "db" /\ out.ev[1][3].tabla = "conductores"
    /\ out.ev[2][1] = "grupo"

\* C5: when the group cannot be notified, what was stored stays stored (the
\* handler does nothing more to the table), the user is asked nothing again
\* and is told the record was saved, and the flow ends with the farewell and
\* an empty session (in the load cells, with the question for another silo).
C5_NotificacionFallida ==
    (Notifico("fail") /\ ~Notifico("ok"))
    => /\ ~Respondio("error") /\ ~Respondio("prompt")
       /\ \A i, j \in DOMAIN out.ev :
             (out.ev[i][1] = "grupo" /\ j > i) => out.ev[j][1] = "answer"
       /\ Respondio("exito")
       /\ \/ out.ev[Len(out.ev)] = Answer("finalizado") /\ SesionVacia(out.user)
          \/ storage[out.user].state = RegistroState("celdas", "agregar_mas")
C5_Testigo ==
    /\ Guardo("ok") /\ Notifico("fail") /\ Respondio("finalizado")
    /\ \E i \in DOMAIN out.ev :
          out.ev[i][1] = "db" /\ out.ev[i][3].tabla = "operario_fijo_granja"

\* C6: the user is told the record was saved only if it was stored.
C6_ExitoSoloSiGuardado ==
    Respondio("exito") => (Guardo("ok") /\ ~Guardo("error") /\ ~Guardo("noconn"))

\* C7: a flow that completes has its record stored at least once: an
\* attempt that finds no connection or whose insert raises is followed by
\* one that stores the record.
C7_AlMenosUnaVez ==
    \A i \in DOMAIN out.ev :
        (out.ev[i][1] = "db" /\ out.ev[i][2] # "ok" /\ ~Respondio("expirada"))
        => \E j \in DOMAIN out.ev : j > i /\ out.ev[j][1] = "db" /\ out.ev[j][2] = "ok"

\* C8: the events of a user are handled one after the other, so a "1" sent
\* twice to the lot confirmation of the piglet intake stores one record: no
\* two handlers of the user are in flight having stored the same record.
C8_UnSoloRegistro ==
    \A i, j \in DOMAIN tareas :
        (i < j /\ tareas[i].user = tareas[j].user)
        => ~(tareas[i].guardado /\ tareas[j].guardado /\ tareas[i].data = tareas[j].data)

\* C9: a step that handles an event of a user leaves the state and the
\* fields of every other user as they were and neither resets nor deletes
\* the other user's last activity (which only ages), and the row it stores
\* is built from the state and the fields of the user of the event.
C9_Aislamiento ==
    [][\A b \in Usuarios :
          out'.user # b
          => /\ storage'[b] = storage[b]
             /\ (b \in DOMAIN user_last_activity') = (b \in DOMAIN user_last_activity)
             /\ b \in DOMAIN user_last_activity
                   => user_last_activity'[b] >= user_last_activity[b]
             /\ \A i \in DOMAIN out'.ev :
                   (out' # out /\ out'.ev[i][1] = "db" /\ out'.ev[i][2] # "noconn")
                   => out'.ev[i][3] = FilaInactiva(out'.user, storage[out'.user].state,
                                                   storage[out'.user].data)]_vars
\* An event of u1 was handled while u2, in a flow and idle past the timeout,
\* has a reap suspended.
C9_Testigo ==
    /\ Len(tareas) >= 1 /\ tareas[1].user = "u2"
    /\ out.user = "u1" /\ out.ev = << Answer("prompt") >>
    /\ "descarga_cedula" \in DOMAIN storage["u1"].data
    /\ "descarga_cedula" \in DOMAIN storage["u2"].data
    /\ "u1" \in DOMAIN user_last_activity /\ user_last_activity["u1"] = 0
    /\ "u2" \in DOMAIN user_last_activity /\ user_last_activity["u2"] > TIMEOUT_MINUTES

\* The columns in which guardar_registro_inactivo writes the mark when the
\* field was not collected, and the rows that carry it.
CamposConMarca == {"cedula", "placa", "tipo_carga", "bascula", "silos_medidos",
                   "tipo_comida", "rango_corrales"}
Marcado(fila) == \E k \in DOMAIN fila \cap CamposConMarca : fila[k] = INACTIVO

\* C10: the reap of a session stores exactly one record, which carries the
\* inactive mark whatever fields were collected, sends nothing to the group,
\* clears the session and tells the user that it expired.
C10_UnRegistroInactivo ==
    Respondio("expirada")
    => /\ Len(out.ev) = 2
       /\ out.ev[1][1] = "db" /\ out.ev[1][2] = "ok" /\ Marcado(out.ev[1][3])
       /\ ~Hay("grupo")
       /\ SesionVacia(out.user)

\* A session with no active flow: no state, the main menu, or a menu of a
\* profile, with no answer collected.
SinFlujoActivo(u) ==
    /\ storage[u].state \in {NoState, menu_principal, sitio3_menu,
                             ConductoresState("menu_conductores")}
    /\ DOMAIN storage[u].data \subseteq {"telegram_id"}
\* The entry of the user's last event is older than the timeout.
Inactiva(u) == u \in DOMAIN user_last_activity /\ user_last_activity[u] > TIMEOUT_MINUTES
\* The step handles an event of the user (it is not the passing of time).
ManejaEvento(u) == out'.user = u /\ (out' # out \/ storage' # storage \/ event' # event)

\* C11: an event for a session that has no active flow and has been idle
\* beyond the timeout makes no persistence call.
C11_SinFlujoSinGuardar ==
    [][\A u \in Users :
          (SinFlujoActivo(u) /\ Inactiva(u) /\ ManejaEvento(u)) => ~Hay("db")']_vars

\* ------------------------------------------------------------- liveness
\* What the program does by itself: time passes.  Nothing else is scheduled
\* by main (the dispatcher only reacts to updates), and whether a user sends
\* another message is for the user to decide, so no handler is fair.
SpecJusto == Init /\ [][Next]_vars /\ WF_vars(Tick)

\* C12: a session in a flow that has been idle beyond the timeout is
\* eventually checkpointed and evicted, whether or not the user sends
\* anything more: it does not stay in the flow, idle, for ever.
C12_BarridoPeriodico ==
    \A u \in Users : (EnFlujo(u) /\ Inactiva(u)) ~> ~(EnFlujo(u) /\ Inactiva(u))

\* What the handlers do with an event of a user who has no session: start
\* shows the main menu and sets it, cancelar_operacion does nothing, and
\* fallback_handler tells the user to use /start.
EstadoSinSesion(m) ==
    IF EsStart(m) THEN [state |-> menu_principal, data |-> NoData]
    ELSE [state |-> NoState, data |-> NoData]
RespuestaSinSesion(m) ==
    IF EsStart(m) THEN << Answer("menu") >>
    ELSE IF EsCancelar(m) THEN <<>>
    ELSE << Answer("use_start") >>
TerminaCon(s, t) == Len(s) >= Len(t) /\ SubSeq(s, Len(s) - Len(t) + 1, Len(s)) = t

\* C13: the event on which an expired session is reaped is then processed
\* as it would be with no session: the session ends where that processing
\* leaves it and the user gets its replies.
C13_EventoNoSePierde ==
    [][\A u \in Users :
          (ManejaEvento(u) /\ Respondio("expirada")')
          => /\ storage'[u] = EstadoSinSesion(event')
             /\ TerminaCon(out'.ev, RespuestaSinSesion(event'))]_vars

\* -------------------------------------------------------- anomaly check
\* The tables in which the flows store their records, and the column that
\* holds the Telegram user in each: the two tables the program creates
\* itself name it telegram_id, the inserts of the others telegram_user_id.
Tablas == {"operario_sitio3_animales", "operario_sitio3_descarga_animales",
           "conductores", "operario_fijo_granja", "operario_sitio3_medicion_silos",
           "operario_sitio3_celdas_carga", "operario_sitio3_combustible",
           "operario_sitio3_traslado_corrales"}
ColumnaUsuario(tabla) ==
    IF tabla \in {"conductores", "operario_fijo_granja"} THEN "telegram_id"
    ELSE "telegram_user_id"

\* The four tables verificar_multiples_cedulas queries, each with
\* WHERE telegram_user_id = $1 AND <identity column> != $2.
TablasConsultadas == {"operario_sitio3_animales", "operario_sitio3_descarga_animales",
                      "conductores", "operario_fijo_granja"}

\* The identities one of its queries adds: a query that names a column the
\* table does not have raises, and the error is swallowed (for the first two
\* tables by the outer try, which ends the check with no alert).
Consulta(bd, tabla, telegram_user_id, cedula_actual) ==
    IF ColumnaUsuario(tabla) # "telegram_user_id" THEN {}
    ELSE { r.cedula : r \in { x \in bd : /\ x.tabla = tabla
                                         /\ x.telegram_id = telegram_user_id
                                         /\ x.cedula # None
                                         /\ x.cedula # cedula_actual } }

\* (hay_alerta, cedulas) for the rows `bd` of the database; `conn` tells
\* whether get_db_connection gave a connection.  The sorted list of distinct
\* identities is kept as their set.
verificar_multiples_cedulas(bd, conn, telegram_user_id, cedula_actual) ==
    IF ~conn THEN << FALSE, {} >>
    ELSE LET cedulas_encontradas ==
                 UNION { Consulta(bd, t, telegram_user_id, cedula_actual) :
                            t \in TablasConsultadas }
         IN  << cedulas_encontradas # {}, cedulas_encontradas >>

\* The check as a step of its own: the database holds at most MaxFilas
\* records, each stored by a completing handler for one of the users under
\* one of two identity numbers, and a user confirms an identity number (one
\* check in each behaviour).
MaxFilas == 2
TCedula2 == <<"6","5","4","3","2","1">>
Cedulas == {TCedula, TCedula2}
FilasCompletas == [tabla : Tablas, telegram_id : Usuarios, cedula : Cedulas]
RECURSIVE HastaN(_, _)
HastaN(S, n) ==
    IF n = 0 THEN { {} }
    ELSE LET menos == HastaN(S, n - 1)
         IN  menos \cup { bd \cup {x} : bd \in menos, x \in S }
Bases == HastaN(FilasCompletas, MaxFilas)
Verificacion(bd, conn, cedula, res) == << "verificar", bd, conn, cedula, res >>

VerificarCedula(u) ==
    \E bd \in Bases, conn \in BOOLEAN, cedula \in Cedulas :
        /\ out.ev = <<>>
        /\ out' = [user |-> u,
                   ev |-> << Verificacion(bd, conn, cedula,
                                 verificar_multiples_cedulas(bd, conn, u, cedula)) >>]
        /\ UNCHANGED <<event, storage, user_last_activity, tareas, db_pool, pools>>

NextVerificar == \E u \in Usuarios : VerificarCedula(u)

SpecVerificar == Init /\ [][NextVerificar]_vars

\* The identities other than `cedula` under which the user has records.
Previas(bd, u, cedula) == { r.cedula : r \in { x \in bd : x.telegram_id = u /\ x.cedula # cedula } }

\* C14: with the store reachable, the check alerts exactly when the user has
\* a completed record, of whatever flow, under another identity, and lists
\* the distinct identities of those records.
C14_AlertaTodasLasTablas ==
    \A i \in DOMAIN out.ev :
        (out.ev[i][1] = "verificar" /\ out.ev[i][3])
        => LET previas == Previas(out.ev[i][2], out.user, out.ev[i][4])
           IN  out.ev[i][5] = << previas # {}, previas >>

\* The step accepts the confirmation of the identity number: the user leaves
\* the state that asks for the confirmation, and not back to the question,
\* to a menu or out of the session.
EsConfirmarCedula(st) == st # NoState /\ st[Len(st)] = "confirmar_cedula"
AceptaCedula(u) ==
    /\ EsConfirmarCedula(storage[u].state)
    /\ out'.user = u
    /\ storage'[u].state \notin {storage[u].state, NoState, menu_principal}
    /\ storage'[u].state[Len(storage'[u].state)] # "cedula"
Verificaciones(ev) == { i \in DOMAIN ev : ev[i][1] = "verifica" }

\* C15: in every flow, the step that accepts the confirmation of the identity
\* number runs the anomaly check exactly once, before the next question is
\* asked; and no other step runs it.
C15_VerificaAlConfirmar ==
    [][\A u \in Users :
          /\ AceptaCedula(u)
                => /\ Cardinality(Verificaciones(out'.ev)) = 1
                   /\ \A i \in Verificaciones(out'.ev), j \in DOMAIN out'.ev :
                         out'.ev[j][1] = "answer" => i < j
          /\ (ManejaEvento(u) /\ Verificaciones(out'.ev) # {}) => AceptaCedula(u)]_vars

\* The state that follows the confirmation of the identity number, in the
\* flows whose confirmation runs the check.
TrasConfirmarCedula(st) ==
    IF st = ConductoresState("confirmar_cedula") THEN ConductoresState("placa")
    ELSE IF st = OperarioSitio1State("confirmar_cedula")
    THEN OperarioSitio1State("cantidad_lechones")
    ELSE IF st = RegistroState("sitio3", "confirmar_cedula")
    THEN RegistroState("sitio3", "numero_banda")
    ELSE IF st = RegistroState("descarga", "confirmar_cedula")
    THEN RegistroState("descarga", "cantidad_lechones")
    ELSE IF st = RegistroState("medicion", "confirmar_cedula")
    THEN RegistroState("medicion", "seleccion_silos")
    ELSE NoState
Respuestas(ev) == SelectSeq(ev, LAMBDA e : e[1] = "answer")

\* C16: whatever the anomaly check gives (no connection, no other identity,
\* other identities with the alert sent or not), the step that ran it leaves
\* the fields as they were, sets the state that follows the confirmation and
\* asks the next question.
C16_VerificacionNoAltera ==
    [][\A u \in Users :
          (ManejaEvento(u) /\ Verificaciones(out'.ev) # {})
          => /\ storage'[u].data = storage[u].data
             /\ storage'[u].state = TrasConfirmarCedula(storage[u].state)
             /\ Respuestas(out'.ev) = << Answer("prompt") >>]_vars
\* The check found other identities and the alert could not be sent, in the
\* lot consumption.
C16_Testigo ==
    /\ out.ev = << Verifica(TCedula, "si"), Alerta("fail"), Answer("prompt") >>
    /\ storage[out.user].state = RegistroState("sitio3", "numero_banda")
    /\ storage[out.user].data["sitio3_cedula"] = TCedula

\* The identity of the running flow has not been confirmed yet.
SinConfirmar(st) == st # NoState /\ st[Len(st)] \in {"cedula", "confirmar_cedula"}
\* The identities that a later check of cedula_actual lists for the user when
\* the table holds the row.
PreviasPorFila(row, u, cedula_actual) ==
    verificar_multiples_cedulas({row}, TRUE, u, cedula_actual)[2]

\* C17: a row that the inactivity reap stores never feeds the prior-identity
\* list of a later check with a value the user did not confirm: while the
\* identity is unconfirmed the row adds nothing to the list, and the
\* placeholder is never listed.
C17_SoloConfirmadas ==
    [][\A u \in Users :
          (ManejaEvento(u) /\ Respondio("expirada")')
          => \A i \in DOMAIN out'.ev, c \in Cedulas :
                (out'.ev[i][1] = "db" /\ out'.ev[i][2] = "ok")
                => /\ INACTIVO \notin PreviasPorFila(out'.ev[i][3], u, c)
                   /\ SinConfirmar(storage[u].state)
                      => PreviasPorFila(out'.ev[i][3], u, c) = {}]_vars

ListaBandas(d) == Get(d, "sitio3_corrales", <<>>)
ListaSilos(d) == Get(d, "medicion_silos_procesados", <<>>)
\* The band shown in the summary that the user confirms.
BandaMostrada(d) ==
    [banda |-> d["sitio3_banda_temp"], rango |-> d["sitio3_rango_temp"],
     tipo_comida |-> d["sitio3_tipo_comida_temp"]]
\* The silo whose invoice photo closes the item.
SiloMostrado(d, foto) ==
    [numero |-> Get(d, "medicion_silo_actual", None),
     tipo_comida |-> Get(d, "medicion_tipo_comida", None),
     peso_descargue |-> Get(d, "medicion_peso_descargue", None),
     foto_factura |-> foto]
\* Where the photo just received was stored.
FotoRecibida(d) ==
    LET l == Get(d, "medicion_silos_procesados", <<>>)
    IN  IF l = <<>> THEN None ELSE l[Len(l)].foto_factura
ConfirmaBanda(u) ==
    /\ storage[u].state = RegistroState("sitio3", "resumen_confirmacion")
    /\ storage'[u].state = RegistroState("sitio3", "agregar_mas")
ConfirmaSilo(u) ==
    /\ storage[u].state = RegistroState("medicion", "foto_factura")
    /\ storage'[u].state = RegistroState("medicion", "agregar_mas")
\* One step of the accumulate loop over a list: a confirmation appends the
\* item as it stands, every other step keeps the list while the session lives.
PasoAcumula(u, Lista(_), confirma, item) ==
    IF confirma
    THEN Lista(storage'[u].data) = Append(Lista(storage[u].data), item)
    ELSE storage'[u].data # NoData => Lista(storage'[u].data) = Lista(storage[u].data)

\* C18: in the accumulate loops the list starts empty when the flow asks for
\* the identity, each confirmation appends the confirmed item (with the
\* values it has after any edit) at the end, and no other step changes the
\* list; so after N confirmations the list has length N and its K-th entry
\* is the K-th confirmed item.
C18_ListaAcumulada ==
    [][\A u \in Users :
          /\ PasoAcumula(u, ListaBandas, ConfirmaBanda(u), BandaMostrada(storage[u].data))
          /\ PasoAcumula(u, ListaSilos, ConfirmaSilo(u), SiloMostrado(storage[u].data, FotoRecibida(storage'[u].data)))
          /\ SinConfirmar(storage'[u].state)
             => ListaBandas(storage'[u].data) = <<>> /\ ListaSilos(storage'[u].data) = <<>>
          /\ storage'[u].state = RegistroState("sitio3", "agregar_mas")
             => ListaBandas(storage'[u].data) # <<>>
          /\ storage'[u].state = RegistroState("medicion", "agregar_mas")
             => ListaSilos(storage'[u].data) # <<>>]_vars
\* Two bands confirmed, the second one different from the first.
C18_Testigo ==
    /\ storage[out.user].state = RegistroState("sitio3", "agregar_mas")
    /\ Len(ListaBandas(storage[out.user].data)) = MaxItems
    /\ ListaBandas(storage[out.user].data)[1] # ListaBandas(storage[out.user].data)[2]
    /\ ListaBandas(storage[out.user].data)[2] = BandaMostrada(storage[out.user].data)

\* ------------------------------------------- weighing at destination
\* The silo sub-loop of the weighing flow (destino_bascula to the photo
\* state).  The flow begins at RegistroState.cedula, a state that no handler
\* of the menus sets, so Spec never enters it; SpecDestino takes the session
\* as destino_bascula leaves it and runs the handlers registered for the
\* states of the sub-loop.
Pesaje(paso) == <<"RegistroState", paso>>

\* validar_peso: digits, optionally a comma and more digits.
validar_peso(valor) ==
    \/ isdigit(valor)
    \/ \E i \in 1..Len(valor) :
          /\ valor[i] = ","
          /\ isdigit(SubSeq(valor, 1, i - 1))
          /\ isdigit(SubSeq(valor, i + 1, Len(valor)))

\* The session after "Destino" was chosen: update_data(tipo="Destino",
\* silos=[], total_silos=0) and the state that asks for the scale weight.
destino_bascula ==
    [state |-> Pesaje("peso_bascula_destino"),
     data |-> [tipo |-> <<"Destino">>, silos |-> <<>>, total_silos |-> 0]]

\* What is sent where a weight is asked for (valid: 1 and 5 kg) and where a
\* silo number is asked for (valid: 1 to 4).
Pesos == [kind : {"text"}, text : {T1, T5, TNo}] \cup {Foto}
NumerosDeSilo == [kind : {"text"}, text : {T1, T2, T3, T4, T5, TSi, TNo}] \cup {Foto}
\* What is sent where the weight unloaded in a silo is asked for: the weights
\* above and one that exceeds them by more than 100 kg.
T150 == <<"1","5","0">>
PesosDeSilo == Pesos \cup {[kind |-> "text", text |-> T150]}

destino_confirmar_bascula(u) ==
    /\ St(u) = Pesaje("peso_bascula_destino")
    /\ \E m \in Pesos :
        /\ Pasa(u, m)
        /\ IF EsFoto(m) THEN Raise(u)
           ELSE IF ~validar_peso(m.text) THEN Reprompt(u)
           ELSE GoTo(u, Pesaje("confirmar_peso_bascula"),
                     Upd(Data(u), "peso_bascula_general", float(m.text)))

\* confirmar_bascula of the weighing flow (the name is also that of a
\* handler of the drivers' flow).
confirmar_bascula_destino(u) ==
    /\ St(u) = Pesaje("confirmar_peso_bascula")
    /\ \E m \in Mensajes :
        /\ Pasa(u, m)
        /\ EsTexto(m, T1)
        /\ GoTo(u, Pesaje("silo_num"), Data(u))

editar_bascula(u) ==
    /\ St(u) = Pesaje("confirmar_peso_bascula")
    /\ \E m \in Mensajes :
        /\ Pasa(u, m)
        /\ EsTexto(m, T2)
        /\ GoTo(u, Pesaje("peso_bascula_destino"), Data(u))

\* Any silo number from 1 to 4 is taken; the list of silos is not read.
destino_peso_silo(u, m) ==
    IF EsFoto(m) THEN Raise(u)
    ELSE IF ~isdigit(m.text) \/ ~(1 <= int(m.text) /\ int(m.text) <= 4)
    THEN Reprompt(u)
    ELSE GoTo(u, Pesaje("silo_peso"), Upd(Data(u), "silo_actual", int(m.text)))

destino_pedir_confirmacion_silo(u) ==
    /\ St(u) = Pesaje("silo_peso")
    /\ \E m \in PesosDeSilo :
        /\ Pasa(u, m)
        /\ IF EsFoto(m) THEN Raise(u)
           ELSE IF ~validar_peso(m.text) THEN Reprompt(u)
           ELSE GoTo(u, Pesaje("confirmar_silo_peso"),
                     Upd(Data(u), "peso_silo_temporal", m.text))

RECURSIVE SumaPesos(_)
SumaPesos(silos) ==
    IF silos = <<>> THEN 0 ELSE silos[1].peso + SumaPesos(Tail(silos))

\* "1" appends the silo and its weight; the flow goes to the photo once the
\* total reaches the scale weight and asks for another silo otherwise.
destino_confirmar_silo(u) ==
    /\ St(u) = Pesaje("confirmar_silo_peso")
    /\ \E m \in Mensajes :
        /\ Pasa(u, m)
        /\ EsTexto(m, T1)
        /\ LET data == Data(u)
               peso_silo == float(data["peso_silo_temporal"])
               silos == Append(Get(data, "silos", <<>>),
                               [numero |-> data["silo_actual"], peso |-> peso_silo])
               total_silos == SumaPesos(silos)
               peso_bascula == data["peso_bascula_general"]
               nuevo == Upd(Upd(data, "silos", silos), "total_silos", total_silos)
           IN  IF total_silos >= peso_bascula
               THEN Handle(u, Pesaje("foto"), nuevo,
                           << Answer(IF total_silos = peso_bascula
                                     THEN "total_correcto" ELSE "exceso") >>)
               ELSE Handle(u, Pesaje("silo_num"), nuevo, << Answer("otro_silo") >>)

editar_peso_silo(u) ==
    /\ St(u) = Pesaje("confirmar_silo_peso")
    /\ \E m \in Mensajes :
        /\ Pasa(u, m)
        /\ EsTexto(m, T2)
        /\ GoTo(u, Pesaje("silo_peso"), Data(u))

\* The reply that lists the silo numbers still unused.
Ofrece(disponibles) == << "ofrece", disponibles >>
destino_otro_silo(u, m) ==
    LET silos_usados == { Get(Data(u), "silos", <<>>)[i].numero :
                            i \in DOMAIN Get(Data(u), "silos", <<>>) }
        silos_disponibles == { i \in 1..4 : i \notin silos_usados }
    IN  IF silos_disponibles = {}
        THEN Handle(u, Pesaje("foto"), Data(u), << Answer("todos_usados") >>)
        ELSE Handle(u, St(u), Data(u), << Ofrece(silos_disponibles) >>)

\* The weights of the model are whole numbers, so the tolerance of 0.1 kg is
\* passed exactly when the two totals differ.
destino_terminar_silos(u, m) ==
    LET total_silos == Get(Data(u), "total_silos", 0)
        peso_bascula == Get(Data(u), "peso_bascula_general", 0)
        diferencia == IF peso_bascula >= total_silos THEN peso_bascula - total_silos
                      ELSE total_silos - peso_bascula
    IN  IF diferencia > 0
        THEN IF diferencia > 100
             THEN \E g \in GrupoResultados :
                     Handle(u, Pesaje("foto"), Data(u), << Answer("falta"), Grupo(g) >>)
             ELSE Handle(u, Pesaje("foto"), Data(u), << Answer("falta") >>)
        ELSE Handle(u, Pesaje("foto"), Data(u), << Answer("verificados") >>)

\* The handlers registered for RegistroState.silo_num, in the order of their
\* registration, and the filter of each besides the state.
TSiAgregarOtroSilo == <<"s","í",","," ","a","g","r","e","g","a","r"," ","o","t","r","o"," ","s","i","l","o">>
TSiAgregarOtroSiloSinTilde == <<"s","i",","," ","a","g","r","e","g","a","r"," ","o","t","r","o"," ","s","i","l","o">>
TNoTerminar == <<"n","o",","," ","t","e","r","m","i","n","a","r">>
Registrados_silo_num == << "destino_peso_silo", "destino_otro_silo", "destino_terminar_silos" >>
Filtro_silo_num(h, m) ==
    CASE h = "destino_peso_silo" -> TRUE
      [] h = "destino_otro_silo" ->
            m.kind = "text" /\ lower(m.text) \in {TSiAgregarOtroSilo, TSiAgregarOtroSiloSinTilde,
                                                  <<"s","í">>, <<"s","i">>}
      [] h = "destino_terminar_silos" ->
            m.kind = "text" /\ lower(m.text) \in {TNoTerminar, <<"n","o">>}

\* The dispatcher calls the first registered handler whose filters pass.
silo_num(u) ==
    /\ St(u) = Pesaje("silo_num")
    /\ \E m \in NumerosDeSilo :
        /\ Pasa(u, m)
        /\ LET i == CHOOSE k \in DOMAIN Registrados_silo_num :
                       /\ Filtro_silo_num(Registrados_silo_num[k], m)
                       /\ \A j \in 1..(k - 1) : ~Filtro_silo_num(Registrados_silo_num[j], m)
               h == Registrados_silo_num[i]
           IN  CASE h = "destino_peso_silo" -> destino_peso_silo(u, m)
                 [] h = "destino_otro_silo" -> destino_otro_silo(u, m)
                 [] h = "destino_terminar_silos" -> destino_terminar_silos(u, m)

InitDestino ==
    /\ storage = [u \in Users |-> destino_bascula]
    /\ user_last_activity = <<>>
    /\ out = [user |-> "u1", ev |-> <<>>]
    /\ event = [kind |-> "none", text |-> <<>>]
    /\ tareas = <<>>
    /\ db_pool = SinPool
    /\ pools = <<>>

NextDestino ==
    \E u \in Users :
        \/ cancelar_operacion(u)
        \/ start(u)
        \/ fallback_handler(u)
        \/ destino_confirmar_bascula(u)
        \/ confirmar_bascula_destino(u)
        \/ editar_bascula(u)
        \/ silo_num(u)
        \/ destino_pedir_confirmacion_silo(u)
        \/ destino_confirmar_silo(u)
        \/ editar_peso_silo(u)

SpecDestino == InitDestino /\ [][NextDestino]_vars

Silos(u) == Get(storage[u].data, "silos", <<>>)
SilosUsados(u) == { Silos(u)[i].numero : i \in DOMAIN Silos(u) }

TerminaSilos(u) ==
    /\ storage[u].state \in {Pesaje("silo_num"), Pesaje("confirmar_silo_peso")}
    /\ storage'[u].state = Pesaje("foto")
Discrepancia(d) ==
    LET total == Get(d, "total_silos", 0)
        bascula == Get(d, "peso_bascula_general", 0)
    IN  IF total >= bascula THEN total - bascula ELSE bascula - total
Advierte(ev) ==
    \E i \in DOMAIN ev : ev[i][1] = "answer" /\ ev[i][2] \in {"exceso", "falta"}

PasosDeConfirmacion ==
    {"confirmar_bascula", "confirmar_cantidad", "confirmar_cantidad_galones",
     "confirmar_cantidad_lechones", "confirmar_cantidad_pesajes", "confirmar_cedula",
     "confirmar_centro_costo", "confirmar_cerdos_vivos", "confirmar_destino",
     "confirmar_kilos_comprados", "confirmar_lechones_por_pesaje", "confirmar_lote",
     "confirmar_nombre_equipo", "confirmar_num_animales", "confirmar_numero_factura",
     "confirmar_origen", "confirmar_peso", "confirmar_peso_bascula",
     "confirmar_peso_descargue", "confirmar_peso_input", "confirmar_placa",
     "confirmar_rango", "confirmar_saldo", "confirmar_silo", "confirmar_silo_peso",
     "confirmar_silos", "confirmar_tipo_alimento", "confirmar_tipo_combustible",
     "resumen_confirmacion"}
EsConfirmacion(st) == st # NoState /\ st[Len(st)] \in PasosDeConfirmacion
\* The event went to the handlers of the state: it is neither the cancel key
\* nor /start, and the session was not reaped.
LlegaAlEstado(u) ==
    /\ ManejaEvento(u)
    /\ ~EsCancelar(event') /\ ~EsStart(event')
    /\ ~Respondio("expirada")'
Conserva(d, e) == \A k \in DOMAIN d : k \in DOMAIN e
\* The answers that send a confirmation back to edit a value.
Rechaza(m) == m.kind = "text" /\ lower(strip(m.text)) \in {T2, lower(TNo)}

\* C22: at a confirmation state an input either leaves the state as it is,
\* or accepts and moves on in the flow (storing the record when the flow ends
\* there), or rejects and goes back to an input state of the flow with the
\* fields of the session kept; and the answers "2" and "no", where they
\* change the state, are rejections.
C22_ConfirmacionBinaria ==
    [][\A u \in Users :
          (EsConfirmacion(storage[u].state) /\ LlegaAlEstado(u)
           /\ storage'[u].state # storage[u].state)
          => /\ ~Hay("db")'
                => /\ storage'[u].state \notin {NoState, menu_principal}
                   /\ Conserva(storage[u].data, storage'[u].data)
             /\ Rechaza(event')
                => /\ ~EsConfirmacion(storage'[u].state)
                   /\ storage'[u].data = storage[u].data]_vars

\* The session is at the question "add another?" of an accumulate loop.
EnAgregarMas(st) == st # NoState /\ st[Len(st)] = "agregar_mas"

\* C23: nothing is stored and nothing is sent to the group for an item while
\* the accumulate loop goes on: a step that leaves the session at the
\* question "add another?" stores no row and sends no notification, so a
\* flow cancelled there has stored nothing.
C23_ItemsSoloEnSesion ==
    [][\A u \in Users :
          (ManejaEvento(u) /\ EnAgregarMas(storage'[u].state))
          => ~Hay("db")' /\ ~Hay("grupo")']_vars

\* The step completes a flow whose notification attaches photos (drivers,
\* Sitio 1, silo intake): rows were handed to the store and the farewell sent.
CompletaConFoto(u) ==
    /\ ManejaEvento(u)
    /\ storage[u].state \in {ConductoresState("confirmar_peso"),
                             OperarioSitio1State("foto_final"),
                             RegistroState("medicion", "agregar_mas")}
    /\ Hay("db")'
FallaEnvio(ev) ==
    \E i \in DOMAIN ev : ev[i][1] \in {"grupo", "grupo_foto"} /\ ev[i][2] = "fail"
TextosAlGrupo(ev) == { i \in DOMAIN ev : ev[i][1] = "grupo" }

CamposDeFoto == {"foto_pesaje", "factura_foto", "foto_confirmacion", "foto_factura",
                 "foto_celda"}
UrlORuta == (upload_to_drive \ {None}) \cup {file_path}
FilasGuardadas(ev) == { ev[i][3] : i \in { j \in DOMAIN ev : ev[j][1] = "db" /\ ev[j][2] = "ok" } }

\* C25: in every row stored when a flow completes, each field that locates a
\* photo holds the link of the uploaded file or the path of the local file,
\* also when the upload gave no link; it is never empty and never a
\* placeholder.
C25_FotoUrlORuta ==
    ~Respondio("expirada")
    => \A fila \in FilasGuardadas(out.ev) :
          \A campo \in CamposDeFoto \cap DOMAIN fila : fila[campo] \in UrlORuta

\* An event has been handled: `event` is the last one that came in.
Entrante == event.kind # "none"
MensajesAlUsuario(ev) == { i \in DOMAIN ev : ev[i][1] = "answer" }

\* C26: every incoming event of a user, text or photo, in every state of the
\* session (no session and the main menu included) gets at least one message
\* back to the user.
C26_SiempreResponde == Entrante => MensajesAlUsuario(out.ev) # {}

\* The messages to the user that carry the text of an exception.
ConErrorCrudo(ev) == { i \in MensajesAlUsuario(ev) : Len(ev[i]) > 2 }

\* C27: no message sent to a user contains the text of an error raised by
\* the store, the blob storage or the chat transport; when one of them fails
\* the user sees only a prompt, a generic error or a final confirmation.
C27_SinErrorCrudo == ConErrorCrudo(out.ev) = {}

\* The fields of the session in which the flows keep the identity number.
CamposDeIdentidad == {"cedula", "sitio3_cedula", "descarga_cedula", "medicion_cedula",
                      "celdas_cedula", "combustible_cedula", "traslado_cedula"}
IdentidadValida(valor) == isdigit(valor) /\ Len(valor) >= 6 /\ Len(valor) <= 12

\* C28: in every flow the identity number kept in the session after the
\* identity step, and the one of every row stored when a flow completes, is a
\* string of digits of length 6 to 12.
C28_IdentidadValida ==
    /\ \A u \in Users :
          \A campo \in CamposDeIdentidad \cap DOMAIN storage[u].data :
              IdentidadValida(storage[u].data[campo])
    /\ ~Respondio("expirada")
       => \A fila \in FilasGuardadas(out.ev) :
             "cedula" \in DOMAIN fila => IdentidadValida(fila.cedula)


\* ------------------------------------------------- the range validator alone
\* validar_rango_corrales as a step of its own: it is given a text of at most
\* MaxLargo characters and one of the two limits its callers pass (9, and 0
\* for none), once in each behaviour.
MaxLargo == 4
Alfabeto == {"0", "1", "9", "-", "\n"}
Entradas == UNION { [1..n -> Alfabeto] : n \in 0..MaxLargo }
Limites == {0, 9}
RangoValidado(valor, max_rango, res) == << "rango", valor, max_rango, res >>

ValidarRango(u) ==
    \E valor \in Entradas, max_rango \in Limites :
        /\ out.ev = <<>>
        /\ out' = [user |-> u,
                   ev |-> << RangoValidado(valor, max_rango,
                                 validar_rango_corrales(valor, max_rango)) >>]
        /\ UNCHANGED <<event, storage, user_last_activity, tareas, db_pool, pools>>

NextRango == \E u \in Users : ValidarRango(u)

SpecRango == Init /\ [][NextRango]_vars

\* A-B: two strings of digits joined by one hyphen, with 1 <= A <= B and, when
\* a limit is given, at most that many pens.
EsRangoValido(valor, max_rango) ==
    \E i \in 1..Len(valor) :
        LET a == SubSeq(valor, 1, i - 1)
            b == SubSeq(valor, i + 1, Len(valor))
        IN  /\ valor[i] = "-"
            /\ isdigit(a)
            /\ isdigit(b)
            /\ 1 <= DigitsToInt(a)
            /\ DigitsToInt(a) <= DigitsToInt(b)
            /\ max_rango # 0 => DigitsToInt(b) - DigitsToInt(a) + 1 <= max_rango

BandasEnRango ==
    \A u \in Users :
        LET l == ListaBandas(storage[u].data)
        IN  \A i \in DOMAIN l : EsRangoValido(l[i].rango, 9)


\* ------------------------------------------------------ the connection pool
\* get_db_connection, called by the handlers, which run as concurrent tasks.
\* A call is a task that runs from one await to the next in one step; it
\* keeps the pool it is acquiring from, what it has done so far and, once
\* finished, what it returned.  At most MaxLlamadas calls are made and at
\* most MaxPools pools are created.
MaxLlamadas == 2
MaxPools == 3
Conn(pool) == << "conn", pool >>
Sesiones == << event, storage, user_last_activity, out >>
Llamada(pc, pool, hecho, ret) == [pc |-> pc, pool |-> pool, hecho |-> hecho, ret |-> ret]

\* main has called init_db_pool before polling starts: the pool was created,
\* or it was not (no DATABASE_URL, or the database was down).
InitPool ==
    /\ storage = [u \in Users |-> [state |-> NoState, data |-> NoData]]
    /\ user_last_activity = <<>>
    /\ out = [user |-> "u1", ev |-> <<>>]
    /\ tareas = <<>>
    /\ event = [kind |-> "none", text |-> <<>>]
    /\ \/ db_pool = SinPool /\ pools = <<>>
       \/ db_pool = 1 /\ pools = << "abierto" >>

\* init_db_pool: asyncpg.create_pool gives a pool, to which the global is
\* set, or it raises (or there is no DATABASE_URL) and the global is left as
\* it is.
init_db_pool(ok) ==
    /\ ok => Len(pools) < MaxPools
    /\ pools' = IF ok THEN Append(pools, "abierto") ELSE pools
    /\ db_pool' = IF ok THEN Len(pools) + 1 ELSE db_pool

\* The call up to its first await: init_db_pool when there is no pool, else
\* the acquisition from the pool.
get_db_connection ==
    /\ Len(tareas) < MaxLlamadas
    /\ tareas' = Append(tareas, IF db_pool = SinPool
                                THEN Llamada("init_db_pool", SinPool, <<>>, <<>>)
                                ELSE Llamada("acquire", db_pool, <<>>, <<>>))
    /\ UNCHANGED << Sesiones, db_pool, pools >>

\* init_db_pool returns: with no pool still, None is returned; else the
\* acquisition from the pool the global refers to begins.
get_db_connection_pool(i) ==
    /\ i \in DOMAIN tareas
    /\ tareas[i].pc = "init_db_pool"
    /\ \E ok \in BOOLEAN :
        /\ init_db_pool(ok)
        /\ LET hecho == Append(tareas[i].hecho, << "init", ok >>)
           IN  tareas' = [tareas EXCEPT ![i] =
                             IF db_pool' = SinPool THEN Llamada("fin", SinPool, hecho, None)
                             ELSE Llamada("acquire", db_pool', hecho, <<>>)]
    /\ UNCHANGED Sesiones

\* The acquisition ends: the connection is returned, or it raised and the
\* pool the global refers to by now, if any, is being closed.
get_db_connection_acquire(i) ==
    /\ i \in DOMAIN tareas
    /\ tareas[i].pc = "acquire"
    /\ \E ok \in BOOLEAN :
        /\ ok => pools[tareas[i].pool] = "abierto"
        /\ LET pool == tareas[i].pool
               hecho == Append(tareas[i].hecho, << "acquire", pool, ok >>)
           IN  tareas' = [tareas EXCEPT ![i] =
                             IF ok THEN Llamada("fin", pool, hecho, Conn(pool))
                             ELSE IF db_pool # SinPool THEN Llamada("close", db_pool, hecho, <<>>)
                             ELSE Llamada("recrear", SinPool, hecho, <<>>)]
    /\ UNCHANGED << Sesiones, db_pool, pools >>

\* close ends (what it raises is swallowed); the global is set to None and
\* init_db_pool is called.
get_db_connection_close(i) ==
    /\ i \in DOMAIN tareas
    /\ tareas[i].pc = "close"
    /\ pools' = [pools EXCEPT ![tareas[i].pool] = "cerrado"]
    /\ db_pool' = SinPool
    /\ tareas' = [tareas EXCEPT ![i] =
                     Llamada("recrear", SinPool,
                             Append(tareas[i].hecho, << "close", tareas[i].pool >>), <<>>)]
    /\ UNCHANGED Sesiones

\* init_db_pool returns: with a pool, the acquisition is tried again; with
\* none, None is returned.
get_db_connection_recrear(i) ==
    /\ i \in DOMAIN tareas
    /\ tareas[i].pc = "recrear"
    /\ \E ok \in BOOLEAN :
        /\ init_db_pool(ok)
        /\ LET hecho == Append(tareas[i].hecho, << "init", ok >>)
           IN  tareas' = [tareas EXCEPT ![i] =
                             IF db_pool' = SinPool THEN Llamada("fin", SinPool, hecho, None)
                             ELSE Llamada("reintento", db_pool', hecho, <<>>)]
    /\ UNCHANGED Sesiones

\* The second acquisition ends: the connection is returned, or it raised and
\* None is returned.
get_db_connection_reintento(i) ==
    /\ i \in DOMAIN tareas
    /\ tareas[i].pc = "reintento"
    /\ \E ok \in BOOLEAN :
        /\ ok => pools[tareas[i].pool] = "abierto"
        /\ LET pool == tareas[i].pool
               hecho == Append(tareas[i].hecho, << "acquire", pool, ok >>)
           IN  tareas' = [tareas EXCEPT ![i] =
                             Llamada("fin", pool, hecho, IF ok THEN Conn(pool) ELSE None)]
    /\ UNCHANGED << Sesiones, db_pool, pools >>

NextPool ==
    \/ get_db_connection
    \/ \E i \in 1..MaxLlamadas :
        \/ get_db_connection_pool(i)
        \/ get_db_connection_acquire(i)
        \/ get_db_connection_close(i)
        \/ get_db_connection_recrear(i)
        \/ get_db_connection_reintento(i)

SpecPool == InitPool /\ [][NextPool]_vars

\* What a finished call did.
Adquisiciones(h) == { k \in DOMAIN h : h[k][1] = "acquire" }
Creaciones(h, desde) == { k \in DOMAIN h : k > desde /\ h[k][1] = "init" }
Reintentos(h, desde) == { k \in Adquisiciones(h) : k > desde }
PrimeraAdquisicion(h) == CHOOSE k \in Adquisiciones(h) : \A j \in Adquisiciones(h) : k <= j
Terminadas == { i \in DOMAIN tareas : tareas[i].pc = "fin" }

\* A finished call returned a connection or None, never an exception.
DevuelveConexionONone ==
    \A i \in Terminadas :
        \/ tareas[i].ret = None
        \/ \E p \in DOMAIN pools : tareas[i].ret = Conn(p)

\* A finished call whose acquisition failed created the pool once more after
\* the failure, tried to acquire at most once more, and returned the
\* connection of that try or None.
RecreaYReintentaUnaVez ==
    \A i \in Terminadas :
        LET h == tareas[i].hecho IN
        (Adquisiciones(h) # {} /\ ~h[PrimeraAdquisicion(h)][3])
        => LET k == PrimeraAdquisicion(h) IN
           /\ Cardinality(Creaciones(h, k)) = 1
           /\ Cardinality(Reintentos(h, k)) <= 1
           /\ \A j \in Reintentos(h, k) :
                 tareas[i].ret = IF h[j][3] THEN Conn(h[j][2]) ELSE None
           /\ Reintentos(h, k) = {} => tareas[i].ret = None

\* A finished call whose acquisition failed leaves the pool it failed on
\* closed.
CierraElPoolRoto ==
    \A i \in Terminadas :
        LET h == tareas[i].hecho IN
        (Adquisiciones(h) # {} /\ ~h[PrimeraAdquisicion(h)][3])
        => pools[h[PrimeraAdquisicion(h)][2]] = "cerrado"

\* C30: get_db_connection never raises into the flow: it returns a connection
\* or None; when the acquisition fails it closes the broken pool, creates the
\* pool once more and tries the acquisition once more, and whatever fails
\* after that gives None.
C30_NuncaLanza == DevuelveConexionONone /\ RecreaYReintentaUnaVez /\ CierraElPoolRoto


\* ------------------------------------------------- releasing the connection
\* The end of a handler that called get_db_connection: its finally block calls
\* release_db_connection when it was given a connection.  That function
\* releases to the pool the global refers to by now, if any: Pool.release
\* raises for a connection of another pool, and what it raises is swallowed.
release_db_connection(i) ==
    /\ i \in DOMAIN tareas
    /\ tareas[i].pc = "fin"
    /\ LET conn == tareas[i].ret
           hecho == tareas[i].hecho
       IN  tareas' = [tareas EXCEPT ![i] =
              IF conn = None THEN Llamada("terminado", SinPool, hecho, conn)
              ELSE IF db_pool = SinPool
                   THEN Llamada("terminado", conn[2], Append(hecho, << "release", SinPool, FALSE >>), conn)
                   ELSE Llamada("terminado", conn[2],
                                Append(hecho, << "release", db_pool, db_pool = conn[2] >>), conn)]
    /\ UNCHANGED << Sesiones, db_pool, pools >>

NextLiberar ==
    \/ get_db_connection
    \/ \E i \in 1..MaxLlamadas :
        \/ get_db_connection_pool(i)
        \/ get_db_connection_acquire(i)
        \/ get_db_connection_close(i)
        \/ get_db_connection_recrear(i)
        \/ get_db_connection_reintento(i)
        \/ release_db_connection(i)

SpecLiberar == InitPool /\ [][NextLiberar]_vars

\* The handlers that have finished, and those of them that still hold the
\* connection they acquired.
Finalizadas == { i \in DOMAIN tareas : tareas[i].pc = "terminado" }
Retenidas ==
    { i \in Finalizadas :
        /\ tareas[i].ret # None
        /\ ~\E k \in DOMAIN tareas[i].hecho :
              tareas[i].hecho[k] = << "release", tareas[i].ret[2], TRUE >> }

\* C31: every connection a handler acquired is back in its pool when the
\* handler finishes, also when another handler created the pool anew in
\* between; no finished handler holds a connection.
C31_ConexionLiberada == Retenidas = {}


\* The state the drivers' flow goes to from the confirmed plate, by cargo type.
SiguientePorCarga(tipo_carga) ==
    CASE tipo_carga \in {Lechones, CerdosGordos} -> ConductoresState("num_animales")
      [] tipo_carga = Combustible -> ConductoresState("tipo_combustible")
      [] tipo_carga = Concentrado -> ConductoresState("numero_factura")
      [] tipo_carga = PesoVacio -> ConductoresState("bascula")
      [] OTHER -> NoState
\* The text accepts at a confirmation of the drivers' flow.
AceptaTexto(m) ==
    /\ m.kind = "text"
    /\ EligeConfirmar(lower(strip(m.text)))
    /\ ~EligeModificar(lower(strip(m.text)))
AceptaPlaca(u) ==
    /\ storage[u].state = ConductoresState("confirmar_placa")
    /\ LlegaAlEstado(u)
    /\ AceptaTexto(event')

\* C32: in the drivers' flow the state that follows an accepted confirmation
\* of the plate is given by the recorded cargo type alone, by exact match:
\* Lechones and Cerdos Gordos go to the number of animals, Combustible to the
\* kind of fuel, Concentrado to the invoice number and Peso Vacío to the
\* choice of scale; there is no other next state.
C32_SiguientePorCarga ==
    [][\A u \in Users :
          AceptaPlaca(u)
          => storage'[u].state = SiguientePorCarga(Get(storage[u].data, "tipo_carga", None))]_vars

\* The plate of an empty-weight session has just been confirmed.
C32_Testigo ==
    \E u \in Users :
        /\ storage[u].state = ConductoresState("bascula")
        /\ Get(storage[u].data, "tipo_carga", None) = PesoVacio
        /\ Get(storage[u].data, "placa", None) # None
        /\ AceptaTexto(event)
        /\ out.ev = << Answer("prompt") >>


\* The scale agrees with the cargo type: Báscula Italcol for Concentrado and
\* for nothing else, Bogotá for Cerdos Gordos only, and Finca Tranquera for
\* everything but Concentrado.
BasculaPermitida(tipo_carga, bascula) ==
    /\ (bascula = Italcol) <=> (tipo_carga = Concentrado)
    /\ bascula = Bogota => tipo_carga = CerdosGordos
    /\ bascula = FincaTranquera => tipo_carga # Concentrado

\* C33: in the drivers' flow the recorded scale is restricted by the cargo
\* type, in every state of the session and in every stored row of the
\* drivers.
C33_BasculaPorCarga ==
    /\ \A u \in Users :
          "bascula" \in DOMAIN storage[u].data
          => BasculaPermitida(Get(storage[u].data, "tipo_carga", None),
                              storage[u].data["bascula"])
    /\ ~Respondio("expirada")
       => \A fila \in FilasGuardadas(out.ev) :
             fila.tabla = "conductores" => BasculaPermitida(fila.tipo_carga, fila.bascula)


\* The question "another silo?" is open: a silo was recorded and the total of
\* the silos is still below the weight of the scale.
PreguntaOtroSilo(u) ==
    /\ storage[u].state = Pesaje("silo_num")
    /\ Silos(u) # <<>>
    /\ Get(storage[u].data, "total_silos", 0) < Get(storage[u].data, "peso_bascula_general", 0)
PideSiguienteSilo(ev) == \E i \in DOMAIN ev : ev[i][1] = "ofrece"

EnPesajes(st) == st \in {OperarioSitio1State("peso_pesaje"), OperarioSitio1State("confirmar_peso")}
PesosSitio1(d) == Get(d, "pesos", <<>>)
\* In the loop the weighing asked for is the one after those recorded and is
\* not beyond the number of weighings; at the final photo all are recorded.
PesajesAlDia(st, d) ==
    /\ EnPesajes(st) => /\ d["pesaje_actual"] = Len(PesosSitio1(d)) + 1
                        /\ d["pesaje_actual"] <= d["cantidad_pesajes"]
    /\ st = OperarioSitio1State("foto_final") => Len(PesosSitio1(d)) = d["cantidad_pesajes"]
\* The weights of the list change only by the confirmed weight being added
\* at its end.
AgregaAlFinal(d, e) ==
    \/ PesosSitio1(e) = PesosSitio1(d)
    \/ PesosSitio1(e) = Append(PesosSitio1(d), d["peso_temp"])
FilasSitio1Guardadas(ev) == { f \in FilasGuardadas(ev) : f.tabla = "operario_fijo_granja" }

\* C35: in the weighing loop of Sitio 1, with the events of one user handled
\* one at a time, pesaje_actual = length(pesos) + 1 and pesaje_actual <=
\* cantidad_pesajes in every state of the loop, the final photo is asked for
\* exactly when length(pesos) = cantidad_pesajes, and the stored row lists
\* exactly cantidad_pesajes weights in the order of their confirmation.
C35_PesajesEnOrden ==
    [][\A u \in Users :
          /\ PesajesAlDia(storage'[u].state, storage'[u].data)
          /\ (EnPesajes(storage[u].state) /\ storage'[u].state # NoState
              /\ storage'[u].state # menu_principal)
             => AgregaAlFinal(storage[u].data, storage'[u].data)
          /\ (storage[u].state = OperarioSitio1State("foto_final") /\ ~Respondio("expirada")')
             => \A fila \in FilasSitio1Guardadas(out'.ev) :
                   /\ fila.pesos_detalle = PesosSitio1(storage[u].data)
                   /\ Len(fila.pesos_detalle) = fila.cantidad_pesajes]_vars

\* A record of two weighings with different weights was stored.
C35_Testigo ==
    /\ ~Respondio("expirada")
    /\ \E fila \in FilasSitio1Guardadas(out.ev) :
          fila.cantidad_pesajes = 2 /\ fila.pesos_detalle = << 2, 1 >>


\* ------------------------------------------------- accepted confirmations
\* An accepted confirmation of the Sitio 1 identity: a text that one of the
\* handlers of OperarioSitio1State.confirmar_cedula takes as "confirmar".
AceptaCedulaSitio1(u) ==
    /\ storage[u].state = OperarioSitio1State("confirmar_cedula")
    /\ LlegaAlEstado(u)
    /\ AceptaTexto(event')
IdentidadCommitida(u) ==
    /\ "cedula" \in DOMAIN storage'[u].data
    /\ storage'[u].data["cedula"] = Get(storage[u].data, "cedula", None)
    /\ validar_cedula_sitio3(storage'[u].data["cedula"])

\* C36: an accepted confirmation commits the value validated in the input
\* state before it: the drivers' plate becomes the validated placa_temp, and
\* after every text the Sitio 1 identity confirmation takes as accept the
\* recorded identity is the validated one the user entered and the flow asks
\* for the number of piglets.
C36_CommitLoValidado ==
    [][\A u \in Users :
          /\ AceptaPlaca(u) =>
                /\ "placa" \in DOMAIN storage'[u].data
                /\ storage'[u].data["placa"] = Get(storage[u].data, "placa_temp", None)
                /\ validar_placa_conductor(storage'[u].data["placa"])
          /\ AceptaCedulaSitio1(u) =>
                /\ IdentidadCommitida(u)
                /\ storage'[u].state = OperarioSitio1State("cantidad_lechones")]_vars


\* ------------------------------------------------- the scale of Peso Vacío
\* A button of the Peso Vacío keyboard pressed at the selection of the scale.
EligeBasculaOfrecida(u) ==
    /\ storage[u].state = ConductoresState("bascula")
    /\ Get(storage[u].data, "es_peso_vacio", FALSE)
    /\ LlegaAlEstado(u)
    /\ event' \in TecladoPesoVacio

\* C37: in the Peso Vacío branch of the drivers' flow each option of the
\* keyboard shown after the plate is confirmed ("1. Granja", "2. Bogotá") is
\* taken by the selection of the scale, which moves to its confirmation.
C37_OpcionOfrecidaAceptada ==
    [][\A u \in Users :
          EligeBasculaOfrecida(u) =>
              storage'[u].state = ConductoresState("confirmar_bascula")]_vars


\* ------------------------------------------------- live and dead pigs
\* The counts of a load weighed at Bogotá: the live pigs are at most the
\* animals of the load and the dead ones are the rest.
ConteoCoherente(num_animales, cerdos_vivos, cerdos_muertos) ==
    /\ 0 <= cerdos_vivos /\ cerdos_vivos <= num_animales
    /\ cerdos_muertos = num_animales - cerdos_vivos
    /\ cerdos_muertos >= 0
FilasEmitidas(ev) == { ev[i][3] : i \in { j \in DOMAIN ev : ev[j][1] = "db" } }
FilasDeBogota(ev) ==
    { fila \in FilasEmitidas(ev) :
        /\ fila.tabla = "conductores"
        /\ "cerdos_vivos" \in DOMAIN fila
        /\ fila.bascula = Bogota
        /\ fila.cerdos_vivos # None }

\* C38: in every session of the drivers and in every row of the drivers handed
\* to the store with the scale Bogotá, the live pigs are between 0 and the
\* number of animals, and the dead pigs are the difference, never negative.
C38_VivosHastaElTotal ==
    /\ \A u \in Users :
          LET d == storage[u].data
          IN  (Get(d, "bascula", None) = Bogota /\ "cerdos_vivos" \in DOMAIN d)
              => ConteoCoherente(Get(d, "num_animales", 0), d["cerdos_vivos"],
                                 d["cerdos_muertos"])
    /\ \A fila \in FilasDeBogota(out.ev) :
          ConteoCoherente(fila.num_animales, fila.cerdos_vivos, fila.cerdos_muertos)


\* ------------------------------------------------- the value 0
\* The text "0" arrives at the state that asks for the live pigs.
CeroCerdosVivos(u) ==
    /\ storage[u].state = ConductoresState("cerdos_vivos")
    /\ ManejaEvento(u)
    /\ ~Respondio("expirada")'
    /\ event' = [kind |-> "text", text |-> T0]

\* C39: a value the validator of an input state accepts can be entered there:
\* at the count of live pigs, whose validator accepts 0 to 5000, the text "0"
\* is recorded as 0 live pigs and the flow moves to the confirmation.
C39_CeroSePuedeIngresar ==
    [][\A u \in Users :
          CeroCerdosVivos(u) =>
              /\ validar_numero_entero(T0, 0, 5000)[1]
              /\ storage'[u].state = ConductoresState("confirmar_cerdos_vivos")
              /\ Get(storage'[u].data, "cerdos_vivos_temp", None) = 0]_vars


\* ------------------------------------------------- the entries of the flows
\* The set_state calls that lead to the first state of a flow: << the state
\* the calling handler is registered for, the state it sets >>. Every call in
\* the source whose target is one of these states is listed.
Transiciones ==
    { << menu_principal, sitio3_menu >>,
      << menu_principal, OperarioSitio1State("cedula") >>,
      << menu_principal, ConductoresState("menu_conductores") >>,
      << OperarioSitio1State("confirmar_cedula"), OperarioSitio1State("cedula") >>,
      << RegistroState("sitio3", "agregar_mas"), sitio3_menu >>,
      << RegistroState("medicion", "agregar_mas"), sitio3_menu >>,
      << sitio3_menu, RegistroState("sitio3", "cedula") >>,
      << sitio3_menu, RegistroState("medicion", "cedula") >>,
      << sitio3_menu, RegistroState("descarga", "cedula") >>,
      << sitio3_menu, RegistroState("celdas", "cedula") >>,
      << sitio3_menu, RegistroState("combustible", "cedula") >>,
      << sitio3_menu, RegistroState("traslado", "cedula") >>,
      << RegistroState("sitio3", "confirmar_cedula"), RegistroState("sitio3", "cedula") >>,
      << RegistroState("descarga", "confirmar_cedula"), RegistroState("descarga", "cedula") >>,
      << RegistroState("medicion", "confirmar_cedula"), RegistroState("medicion", "cedula") >>,
      << RegistroState("celdas", "confirmar_cedula"), RegistroState("celdas", "cedula") >>,
      << RegistroState("combustible", "confirmar_cedula"), RegistroState("combustible", "cedula") >>,
      << RegistroState("traslado", "confirmar_cedula"), RegistroState("traslado", "cedula") >>,
      << Pesaje("cedula"), Pesaje("confirmar_cedula") >>,
      << Pesaje("confirmar_cedula"), Pesaje("cedula") >> }

\* The first state of each flow that has handlers: the menus' flows, and the
\* weighing of vehicles, the query of a silo and the subtraction from a silo.
EntradasDeFlujo ==
    { sitio3_menu, OperarioSitio1State("cedula"), ConductoresState("menu_conductores"),
      RegistroState("sitio3", "cedula"), RegistroState("medicion", "cedula"),
      RegistroState("descarga", "cedula"), RegistroState("celdas", "cedula"),
      RegistroState("combustible", "cedula"), RegistroState("traslado", "cedula"),
      Pesaje("cedula"), Pesaje("consulta_silo"), Pesaje("restar_silo_numero") }

\* The states from which a sequence of handlers leads into S.
Anteriores(S) == { t[1] : t \in { x \in Transiciones : x[2] \in S } }
RECURSIVE Origenes(_)
Origenes(S) ==
    LET T == S \cup Anteriores(S)
    IN  IF T = S THEN S ELSE Origenes(T)
SePuedeEntrar(desde, estado) == desde \in Origenes({estado})

\* C40: every flow that has handlers can be entered from the main menu that
\* /start shows, by some sequence of inputs: the flows of the menus and also
\* the weighing of vehicles, the query of a silo and the subtraction from a
\* silo.
C40_FlujosAlcanzables ==
    \A u \in Users :
        storage[u].state = menu_principal
        => \A estado \in EntradasDeFlujo : SePuedeEntrar(menu_principal, estado)

====
